---- MODULE Spec2Model ----
(***************************************************************************)
(* Model of the institution analyser service.                              *)
(*                                                                         *)
(*  Spec     the bounded-concurrency correlator, one request handled by    *)
(*           EarningsBigMoneyHandler.GetEarningsWithBigMoney: the events   *)
(*           fetch, the fan-out of one goroutine per event behind a        *)
(*           semaphore of capacity 5, the mutex-guarded append, the join   *)
(*           and the summary.                                              *)
(*  SpecRun  the single-run path DeepSearchService.AnalyseMain driven by   *)
(*           HandleTriggerAnalysis: fetch, enhanceData, generateSignals,   *)
(*           storeSignalsInDatabase.                                       *)
(*  SpecDecide   getFinalDecisionFromSignals called, more than once, on   *)
(*           every list of a few signals.                                  *)
(*  SpecEnhance  the loop of enhanceData run item by item over short and   *)
(*           long inputs.                                                  *)
(*  SpecSignals  AnalyseMain run step by step on those inputs:             *)
(*           enhanceData, generateSignals, storeSignalsInDatabase; and     *)
(*           generateSignals called on hand-made bars.                     *)
(*  SpecResolve  the date parameters of the correlator and the analysis    *)
(*           date resolved from them.                                      *)
(*  FairSpec     the correlator under weak fairness of its steps.          *)
(***************************************************************************)
EXTENDS Integers, Sequences, FiniteSets, TLC

\* ------------------------------------------------------------------------
\* Bounds
\* ------------------------------------------------------------------------
\* largest number of earnings events the events collaborator returns
MaxEvents == 6
\* largest number of bars the market-data iterator yields in one run
MaxBars == 4
\* largest number of analysis runs in one behaviour
MaxRuns == 2

\* ------------------------------------------------------------------------
\* Program constants
\* ------------------------------------------------------------------------
\* capacity of the semaphore channel: make(chan struct{}, 5)
SemCap == 5

VARIABLES
  \* ---- correlator (handlers.GetEarningsWithBigMoney) ----
  hpc,          \* position of the handler goroutine
  fetched,      \* outcome of fetchEarningsFromPolygon: "pending", "error", "ok"
  earnings,     \* the event list returned by fetchEarningsFromPolygon
  fetchCalls,   \* number of calls of fetchEarningsFromPolygon made so far
  spawned,      \* number of iterations of the fan-out loop done
  tpc,          \* position of each worker goroutine
  answer,       \* what the trade analysis service answered to each worker
  local,        \* each worker's local variable `result`
  semaphore,    \* number of tokens in the semaphore channel
  mu,           \* TRUE while the mutex is locked
  wg,           \* the WaitGroup counter
  results,      \* the shared slice `results`
  response,     \* what the handler wrote with c.JSON
  \* ---- single-run path (deepsearch.AnalyseMain and its handler) ----
  alive,        \* FALSE once the process has exited
  store,        \* the rows of the table of TechnicalSignal, in insertion order
  requests,     \* the number of rows of the table of DeepSearchRequest
  runs,         \* the number of requests and calls made so far
  lastRun,      \* what the last request or call did
  \* ---- getFinalDecisionFromSignals and enhanceData called on their own ----
  given,        \* the signal list passed to getFinalDecisionFromSignals
  decided,      \* what the calls made on it so far returned
  source,       \* the items the iterator passed to enhanceData yields
  loop,         \* the state of the loop of enhanceData
  \* ---- a run of AnalyseMain on a long input, and the date parameters ----
  scan,         \* what generateSignals was called on and what it returned
  query         \* the date parameters of a correlator request, and the
                \* analysis date resolved from them

cvars == <<hpc, fetched, earnings, fetchCalls, spawned, tpc, answer, local,
           semaphore, mu, wg, results, response>>

rvars == <<alive, store, requests, runs, lastRun>>

fvars == <<given, decided, source, loop, scan, query>>

vars == <<cvars, rvars, fvars>>

\* ------------------------------------------------------------------------
\* Data of the correlator
\* ------------------------------------------------------------------------
Tasks == 1..MaxEvents

NoResult == [ticker |-> 0, direction |-> "", error |-> ""]
NoAnswer == [kind |-> "none", trades |-> 0, direction |-> ""]
NoResponse == [status |-> 0]

\* What the trade analysis service can answer to a lookup.
\*   kind       "transport" http.Get failed, "status" a non-200 status,
\*              "read" reading the body failed, "decode" json.Unmarshal
\*              failed, "ok" a decoded TradeAnalysisResponse
\*   trades     Result.TotalTrades
\*   direction  Result.Direction
Failure(k) == [kind |-> k, trades |-> 0, direction |-> ""]
Answer(n, d) == [kind |-> "ok", trades |-> n, direction |-> d]

FailureKinds == {"transport", "status", "read", "decode"}
Directions == {"BUYING_PRESSURE", "SELLING_PRESSURE", "NEUTRAL"}

\* The ticker whose lookup can end in every way the service can answer.
Volatile == 9

AllAnswers ==
  {Failure(k) : k \in FailureKinds}
    \cup {Answer(n, d) : n \in {0, 4}, d \in Directions}

\* The answers of the trade analysis service per ticker: the tickers of the
\* roster 1, 2, 3, ... behave in a fixed way (2 fails, 3 has no trades).
TradeAnalysisAPI(t) ==
  CASE t = Volatile -> AllAnswers
    [] t = 1 -> {Answer(12, "BUYING_PRESSURE")}
    [] t = 2 -> {Failure("transport"), Failure("status")}
    [] t = 3 -> {Answer(0, "BUYING_PRESSURE")}
    [] t = 4 -> {Answer(7, "SELLING_PRESSURE")}
    [] t = 5 -> {Answer(3, "NEUTRAL")}
    [] t = 6 -> {Answer(9, "BUYING_PRESSURE")}
    [] OTHER -> {Answer(5, "SELLING_PRESSURE")}

\* The event lists the events collaborator can return: the first n tickers
\* of the roster for every n up to MaxEvents, and three short lists with the
\* volatile ticker, one of them with the same ticker twice.
Calendars ==
  {[i \in 1..n |-> i] : n \in 0..MaxEvents}
    \cup {<<Volatile>>, <<Volatile, 1>>, <<Volatile, 2, Volatile>>}

\* lines 254-319
ErrorMessage(kind) ==
  CASE kind = "transport" -> "Failed to call tradeanalysis API"
    [] kind = "status"    -> "Tradeanalysis API returned status"
    [] kind = "read"      -> "Failed to read tradeanalysis response"
    [] kind = "decode"    -> "Failed to parse tradeanalysis response"
    [] OTHER              -> ""


\* analyzeTickerBigMoney with the error branches leaving the result as built
\* at lines 255-262: the direction and the message are not set
analyzeForgetsError(t, r) ==
  IF r.kind # "ok"
    THEN [ticker |-> t, direction |-> "", error |-> ""]
    ELSE [ticker |-> t,
          direction |-> IF r.trades = 0 THEN "NO_DATA" ELSE r.direction,
          error |-> ""]

\* analyzeTickerBigMoney without lines 314-316: the direction of the service
\* is kept when it saw no trade
analyzeKeepsDirection(t, r) ==
  IF r.kind # "ok"
    THEN [ticker |-> t, direction |-> "ERROR", error |-> ErrorMessage(r.kind)]
    ELSE [ticker |-> t, direction |-> r.direction, error |-> ""]

analyzeTickerBigMoney(t, r) ==
  IF r.kind # "ok"
    THEN [ticker |-> t, direction |-> "ERROR", error |-> ErrorMessage(r.kind)]
    ELSE [ticker |-> t,
          direction |-> IF r.trades = 0 THEN "NO_DATA" ELSE r.direction,
          error |-> ""]


\* the goroutine reading the loop variable instead of its argument, after the
\* loop has moved on
TaskEventCaptured(i) == earnings[Len(earnings)]

\* lines 209, 221: the event is passed to the goroutine as an argument
TaskEvent(i) == earnings[i]


\* the summary loop with a case for "ERROR" in place of the default case
RECURSIVE SummariseErrorCase(_)
SummariseErrorCase(rs) ==
  IF rs = <<>>
    THEN [bullish |-> 0, bearish |-> 0, neutral |-> 0, errors |-> 0,
          total |-> 0]
    ELSE LET d == rs[Len(rs)].direction
         IN  CHOOSE next \in
               {[bullish |-> s.bullish + (IF d = "BUYING_PRESSURE" THEN 1 ELSE 0),
                 bearish |-> s.bearish + (IF d = "SELLING_PRESSURE" THEN 1 ELSE 0),
                 neutral |-> s.neutral + (IF d = "NEUTRAL" THEN 1 ELSE 0),
                 errors  |-> s.errors + (IF d = "ERROR" THEN 1 ELSE 0),
                 total   |-> s.total + 1] :
                  s \in {SummariseErrorCase(SubSeq(rs, 1, Len(rs) - 1))}} : TRUE

\* lines 226-241: the summary loop over results; s is the summary after
\* the results before the last one, bound once so that it is computed once
RECURSIVE Summarise(_)
Summarise(rs) ==
  IF rs = <<>>
    THEN [bullish |-> 0, bearish |-> 0, neutral |-> 0, errors |-> 0,
          total |-> 0]
    ELSE LET d == rs[Len(rs)].direction
         IN  CHOOSE next \in
               {[bullish |-> s.bullish + (IF d = "BUYING_PRESSURE" THEN 1 ELSE 0),
                 bearish |-> s.bearish + (IF d = "SELLING_PRESSURE" THEN 1 ELSE 0),
                 neutral |-> s.neutral + (IF d = "NEUTRAL" THEN 1 ELSE 0),
                 errors  |-> s.errors + (IF d \notin Directions THEN 1 ELSE 0),
                 total   |-> s.total + 1] :
                  s \in {Summarise(SubSeq(rs, 1, Len(rs) - 1))}} : TRUE

\* line 194: EarningsBigMoneySummary{}
ZeroSummary == [bullish |-> 0, bearish |-> 0, neutral |-> 0, errors |-> 0,
                total |-> 0]

\* ------------------------------------------------------------------------
\* Correlator: initial state and actions
\* ------------------------------------------------------------------------
CInit ==
  /\ hpc = "start"
  /\ fetched = "pending"
  /\ earnings = <<>>
  /\ fetchCalls = 0
  /\ spawned = 0
  /\ tpc = [i \in Tasks |-> "idle"]
  /\ answer = [i \in Tasks |-> NoAnswer]
  /\ local = [i \in Tasks |-> NoResult]
  /\ semaphore = 0
  /\ mu = FALSE
  /\ wg = 0
  /\ results = <<>>
  /\ response = NoResponse

\* lines 109-154: the API key and the query parameters are checked
ParseRequest ==
  /\ hpc = "start"
  /\ \E keySet \in BOOLEAN, date \in {"missing", "invalid", "valid"},
        analysisDate \in {"absent", "invalid", "valid"} :
       IF ~keySet
         THEN /\ response' = [status |-> 503]
              /\ hpc' = "done"
       ELSE IF date # "valid" \/ analysisDate = "invalid"
         THEN /\ response' = [status |-> 400]
              /\ hpc' = "done"
       ELSE /\ hpc' = "fetch"
            /\ UNCHANGED response
  /\ UNCHANGED <<fetched, earnings, fetchCalls, spawned, tpc, answer, local,
                 semaphore, mu, wg, results>>
  /\ UNCHANGED <<rvars, fvars>>

\* fetchEarningsFromPolygon, lines 188-212 of the earnings handler: the ways
\* the events fetch returns an error
FetchFailureKinds == {"request", "status", "read", "parse", "not OK"}


\* the events fetch tried again after a failure
FetchFailsRetries ==
  /\ hpc = "fetch"
  /\ fetchCalls < 3
  /\ fetchCalls' = fetchCalls + 1
  /\ fetched' = "error"
  /\ UNCHANGED <<hpc, earnings, spawned, tpc, answer, local, semaphore, mu, wg,
                 results, response>>
  /\ UNCHANGED <<rvars, fvars>>

\* lines 178-187: the events fetch fails
FetchFails ==
  /\ hpc = "fetch"
  /\ fetchCalls' = fetchCalls + 1
  /\ fetched' = "error"
  /\ \E k \in FetchFailureKinds :
       response' = [status |-> 500,
                    error |-> "Failed to fetch earnings calendar",
                    details |-> k]
  /\ hpc' = "done"
  /\ UNCHANGED <<earnings, spawned, tpc, answer, local, semaphore, mu, wg,
                 results>>
  /\ UNCHANGED <<rvars, fvars>>


\* the events fetch with an empty list answered as not found
FetchOKEmptyIsError ==
  /\ hpc = "fetch"
  /\ fetchCalls' = fetchCalls + 1
  /\ fetched' = "ok"
  /\ \E es \in Calendars :
       /\ earnings' = es
       /\ IF Len(es) = 0
            THEN /\ response' = [status |-> 404]
                 /\ hpc' = "done"
            ELSE /\ hpc' = "spawn"
                 /\ UNCHANGED response
  /\ UNCHANGED <<spawned, tpc, answer, local, semaphore, mu, wg, results>>
  /\ UNCHANGED <<rvars, fvars>>

\* lines 178-205: the events fetch succeeds; an empty list is answered at once
FetchOK ==
  /\ hpc = "fetch"
  /\ fetchCalls' = fetchCalls + 1
  /\ fetched' = "ok"
  /\ \E es \in Calendars :
       /\ earnings' = es
       /\ IF Len(es) = 0
            THEN /\ response' = [status |-> 200, total |-> 0, results |-> <<>>,
                                 summary |-> ZeroSummary]
                 /\ hpc' = "done"
            ELSE /\ hpc' = "spawn"
                 /\ UNCHANGED response
  /\ UNCHANGED <<spawned, tpc, answer, local, semaphore, mu, wg, results>>
  /\ UNCHANGED <<rvars, fvars>>

\* lines 207-222: one iteration of the loop, wg.Add(1) and the go statement
Spawn ==
  /\ hpc = "spawn"
  /\ spawned < Len(earnings)
  /\ spawned' = spawned + 1
  /\ wg' = wg + 1
  /\ tpc' = [tpc EXCEPT ![spawned + 1] = "acquire"]
  /\ UNCHANGED <<hpc, fetched, earnings, fetchCalls, answer, local, semaphore,
                 mu, results, response>>
  /\ UNCHANGED <<rvars, fvars>>

\* the loop ends and the handler reaches wg.Wait()
LoopEnd ==
  /\ hpc = "spawn"
  /\ spawned = Len(earnings)
  /\ hpc' = "wait"
  /\ UNCHANGED <<fetched, earnings, fetchCalls, spawned, tpc, answer, local,
                 semaphore, mu, wg, results, response>>
  /\ UNCHANGED <<rvars, fvars>>


\* the goroutine starting its lookup without waiting for a slot
AcquireNoCap(i) ==
  /\ tpc[i] = "acquire"
  /\ semaphore' = semaphore + 1
  /\ tpc' = [tpc EXCEPT ![i] = "analyze"]
  /\ UNCHANGED <<hpc, fetched, earnings, fetchCalls, spawned, answer, local,
                 mu, wg, results, response>>
  /\ UNCHANGED <<rvars, fvars>>

\* line 213: semaphore <- struct{}{} blocks while the channel is full
Acquire(i) ==
  /\ tpc[i] = "acquire"
  /\ semaphore < SemCap
  /\ semaphore' = semaphore + 1
  /\ tpc' = [tpc EXCEPT ![i] = "analyze"]
  /\ UNCHANGED <<hpc, fetched, earnings, fetchCalls, spawned, answer, local,
                 mu, wg, results, response>>
  /\ UNCHANGED <<rvars, fvars>>

\* line 216: result := h.analyzeTickerBigMoney(e, ...) returns
Analyze(i) ==
  /\ tpc[i] = "analyze"
  /\ \E r \in TradeAnalysisAPI(TaskEvent(i)) :
       /\ answer' = [answer EXCEPT ![i] = r]
       /\ local' = [local EXCEPT ![i] = analyzeTickerBigMoney(TaskEvent(i), r)]
  /\ tpc' = [tpc EXCEPT ![i] = "lock"]
  /\ UNCHANGED <<hpc, fetched, earnings, fetchCalls, spawned, semaphore, mu,
                 wg, results, response>>
  /\ UNCHANGED <<rvars, fvars>>

\* mu.Lock() returning while another goroutine holds the mutex
LockNoWait(i) ==
  /\ tpc[i] = "lock"
  /\ mu' = TRUE
  /\ tpc' = [tpc EXCEPT ![i] = "append"]
  /\ UNCHANGED <<hpc, fetched, earnings, fetchCalls, spawned, answer, local,
                 semaphore, wg, results, response>>
  /\ UNCHANGED <<rvars, fvars>>

\* line 218: mu.Lock() blocks while the mutex is locked
Lock(i) ==
  /\ tpc[i] = "lock"
  /\ ~mu
  /\ mu' = TRUE
  /\ tpc' = [tpc EXCEPT ![i] = "append"]
  /\ UNCHANGED <<hpc, fetched, earnings, fetchCalls, spawned, answer, local,
                 semaphore, wg, results, response>>
  /\ UNCHANGED <<rvars, fvars>>

\* the result put in front of the list instead of at its end
AppendResultInFront(i) ==
  /\ tpc[i] = "append"
  /\ results' = <<local[i]>> \o results
  /\ tpc' = [tpc EXCEPT ![i] = "unlock"]
  /\ UNCHANGED <<hpc, fetched, earnings, fetchCalls, spawned, answer, local,
                 semaphore, mu, wg, response>>
  /\ UNCHANGED <<rvars, fvars>>

\* line 219: results = append(results, result)
AppendResult(i) ==
  /\ tpc[i] = "append"
  /\ results' = Append(results, local[i])
  /\ tpc' = [tpc EXCEPT ![i] = "unlock"]
  /\ UNCHANGED <<hpc, fetched, earnings, fetchCalls, spawned, answer, local,
                 semaphore, mu, wg, response>>
  /\ UNCHANGED <<rvars, fvars>>

\* the goroutine returning without the deferred <-semaphore
UnlockKeepsSlot(i) ==
  /\ tpc[i] = "unlock"
  /\ mu' = FALSE
  /\ wg' = wg - 1
  /\ tpc' = [tpc EXCEPT ![i] = "done"]
  /\ UNCHANGED <<hpc, fetched, earnings, fetchCalls, spawned, answer, local,
                 semaphore, results, response>>
  /\ UNCHANGED <<rvars, fvars>>

\* lines 220-221, 214, 210: mu.Unlock() and the return of the goroutine, which
\* runs the deferred calls in reverse order: <-semaphore, then wg.Done().
\* None of the three can block and nothing else runs in the goroutine
\* between them.
Unlock(i) ==
  /\ tpc[i] = "unlock"
  /\ mu' = FALSE
  /\ semaphore' = semaphore - 1
  /\ wg' = wg - 1
  /\ tpc' = [tpc EXCEPT ![i] = "done"]
  /\ UNCHANGED <<hpc, fetched, earnings, fetchCalls, spawned, answer, local,
                 results, response>>
  /\ UNCHANGED <<rvars, fvars>>


\* the handler going on to the summary without the join
WaitNoJoin ==
  /\ hpc = "wait"
  /\ hpc' = "summary"
  /\ UNCHANGED <<fetched, earnings, fetchCalls, spawned, tpc, answer, local,
                 semaphore, mu, wg, results, response>>
  /\ UNCHANGED <<rvars, fvars>>

\* line 224: wg.Wait() returns once the counter is zero
Wait ==
  /\ hpc = "wait"
  /\ wg = 0
  /\ hpc' = "summary"
  /\ UNCHANGED <<fetched, earnings, fetchCalls, spawned, tpc, answer, local,
                 semaphore, mu, wg, results, response>>
  /\ UNCHANGED <<rvars, fvars>>

\* lines 226-250: the summary loop and c.JSON(http.StatusOK, response)
Respond ==
  /\ hpc = "summary"
  /\ response' = [status |-> 200, total |-> Len(results), results |-> results,
                  summary |-> Summarise(results)]
  /\ hpc' = "done"
  /\ UNCHANGED <<fetched, earnings, fetchCalls, spawned, tpc, answer, local,
                 semaphore, mu, wg, results>>
  /\ UNCHANGED <<rvars, fvars>>

CNext ==
  \/ ParseRequest
  \/ FetchFails
  \/ FetchOK
  \/ Spawn
  \/ LoopEnd
  \/ \E i \in Tasks : Acquire(i)
  \/ \E i \in Tasks : Analyze(i)
  \/ \E i \in Tasks : Lock(i)
  \/ \E i \in Tasks : AppendResult(i)
  \/ \E i \in Tasks : Unlock(i)
  \/ Wait
  \/ Respond

\* ========================================================================
\* The single-run path: deepsearch.AnalyseMain
\* ========================================================================
\* Prices are integers (cents), volumes and transaction counts are integers.
\* A float64 quotient is kept as an exact fraction n/d with d > 0, and the
\* volume z-score, which divides by a square root, as the triple it is
\* computed from.

Zero == [n |-> 0, d |-> 1]
Ratio(a, b) == [n |-> a, d |-> b]
\* a > b for fractions
Greater(a, b) == a.n * b.d > b.n * a.d

Abs(x) == IF x < 0 THEN -x ELSE x

RECURSIVE SumSeq(_)
SumSeq(xs) == IF xs = <<>> THEN 0 ELSE Head(xs) + SumSeq(Tail(xs))

\* the last k elements of xs, the slice xs[len(xs)-k:]
LastN(xs, k) == SubSeq(xs, Len(xs) - k + 1, Len(xs))

\* calculateATR summing every range instead of the last `period` ranges
calculateATRAllRanges(ranges, period) ==
  IF Len(ranges) < period
    THEN Zero
    ELSE Ratio(SumSeq(ranges), period)

\* calculateATR without the warm-up: the mean of the ranges seen so far
\* while there are fewer than `period`
calculateATRNoWarmUp(ranges, period) ==
  IF Len(ranges) < period
    THEN Ratio(SumSeq(ranges), Len(ranges))
    ELSE Ratio(SumSeq(LastN(ranges, period)), period)

\* calculateATR: the mean of the last `period` ranges, 0 before that
calculateATR(ranges, period) ==
  IF Len(ranges) < period
    THEN Zero
    ELSE Ratio(SumSeq(LastN(ranges, period)), period)

\* The z-score (last - mean) / stdDev over the last `lookback` volumes, as
\*   dev  = w * (last - mean)          with w the window length
\*   sq   = w * w * sum (v - mean)^2
\*   w    = the window length
\* so that z = dev * sqrt(w) / sqrt(sq); NoZScore is the value 0.
NoZScore == [dev |-> 0, sq |-> 1, w |-> 1]

RECURSIVE SumSqDev(_, _, _)
SumSqDev(window, w, total) ==
  IF window = <<>> THEN 0
  ELSE (w * Head(window) - total) * (w * Head(window) - total)
         + SumSqDev(Tail(window), w, total)

volumeZScore(volumes, lookback) ==
  IF Len(volumes) < lookback \/ lookback = 0
    THEN NoZScore
    ELSE LET window == LastN(volumes, lookback)
             w      == Len(window)
             total  == SumSeq(window)
             sq     == SumSqDev(window, w, total)
         IN  IF sq = 0
               THEN NoZScore
               ELSE [dev |-> w * volumes[Len(volumes)] - total,
                     sq |-> sq, w |-> w]

\* z > c for a whole number c >= 0
ZScoreAbove(z, c) == z.dev > 0 /\ z.dev * z.dev * z.w > c * c * z.sq

\* sort.Float64s on fractions: insertion of each element into a sorted list
RECURSIVE InsertSorted(_, _)
InsertSorted(sorted, x) ==
  IF sorted = <<>> THEN <<x>>
  ELSE IF Greater(Head(sorted), x) THEN <<x>> \o sorted
  ELSE <<Head(sorted)>> \o InsertSorted(Tail(sorted), x)

RECURSIVE SortFloat64s(_)
SortFloat64s(data) ==
  IF data = <<>> THEN <<>>
  ELSE InsertSorted(SortFloat64s(SubSeq(data, 1, Len(data) - 1)),
                    data[Len(data)])

\* quantile with the index int(q * len(data))
quantileOfLength(data, tenths) ==
  IF Len(data) = 0
    THEN Zero
    ELSE SortFloat64s(data)[((tenths * Len(data)) \div 10) + 1]

\* quantile(data, q) with q given in tenths: the element at the index
\* int(q * (len(data) - 1)) of the sorted data, counted from 0
quantile(data, tenths) ==
  IF Len(data) = 0
    THEN Zero
    ELSE SortFloat64s(data)[((tenths * (Len(data) - 1)) \div 10) + 1]

\* the ATR period and the z-score lookback passed by enhanceData
ATRPeriod == 14
ZScoreLookback == 14

\* The EnhancedBar one iteration of the loop of enhanceData builds: st is
\* the state of the loop before it (enhanced, cumulativeVolume,
\* cumulativeVWAP, volumes, ranges, volumePerTrade) and agg the item read
\* from the iterator.
EnhanceBar(st, agg) ==
  LET cumulativeVolume == st.cumulativeVolume + agg.volume
      cumulativeVWAP   == st.cumulativeVWAP + agg.volume * agg.vwap
      barRange         == agg.high - agg.low
      ranges           == Append(st.ranges, barRange)
      volumes          == Append(st.volumes, agg.volume)
      body             == Abs(agg.close - agg.open)
      hasPrev          == Len(st.enhanced) > 0
      prevBar          == st.enhanced[Len(st.enhanced)]
      counted          == agg.transactions > 0
      vpt              == Ratio(agg.volume, agg.transactions)
      appended         == Append(st.volumePerTrade, vpt)
  IN  [Timestamp    |-> agg.timestamp,
       Open         |-> agg.open,
       Close        |-> agg.close,
       High         |-> agg.high,
       Low          |-> agg.low,
       Volume       |-> agg.volume,
       Transactions |-> agg.transactions,
       VWAP         |-> agg.vwap,
       CumulativeVWAP |->
         IF cumulativeVolume > 0
           THEN Ratio(cumulativeVWAP, cumulativeVolume)
           ELSE Zero,
       ATR          |-> calculateATR(ranges, ATRPeriod),
       VolumeZScore |-> volumeZScore(volumes, ZScoreLookback),
       IsDoji       |-> barRange > 0 /\ 10 * body < barRange,
       BearishEngulfing |->
         /\ hasPrev
         /\ agg.close < agg.open
         /\ agg.open > prevBar.Close
         /\ agg.close < prevBar.Open,
       BullishEngulfing |->
         /\ hasPrev
         /\ agg.close > agg.open
         /\ agg.open < prevBar.Close
         /\ agg.close > prevBar.Open,
       InstitutionalFlow |->
         counted /\ Greater(vpt, quantile(appended, 9))]

\* the loop body writing the engulfing flags to the engulfed bar as well
EnhanceStepMarksPrevious(st, agg) ==
  [enhanced         |->
     LET bar == EnhanceBar(st, agg)
         n   == Len(st.enhanced)
     IN  Append(IF n = 0 THEN st.enhanced
                ELSE [st.enhanced EXCEPT
                        ![n].BearishEngulfing = bar.BearishEngulfing,
                        ![n].BullishEngulfing = bar.BullishEngulfing],
                bar),
   cumulativeVolume |-> st.cumulativeVolume + agg.volume,
   cumulativeVWAP   |-> st.cumulativeVWAP + agg.volume * agg.vwap,
   volumes          |-> Append(st.volumes, agg.volume),
   ranges           |-> Append(st.ranges, agg.high - agg.low),
   volumePerTrade   |->
     IF agg.transactions > 0
       THEN SortFloat64s(Append(st.volumePerTrade,
                                Ratio(agg.volume, agg.transactions)))
       ELSE st.volumePerTrade]

\* the loop body adding the vwap to cumulativeVWAP without the volume
EnhanceStepUnweighted(st, agg) ==
  [enhanced         |-> Append(st.enhanced, EnhanceBar(st, agg)),
   cumulativeVolume |-> st.cumulativeVolume + agg.volume,
   cumulativeVWAP   |-> st.cumulativeVWAP + agg.vwap,
   volumes          |-> Append(st.volumes, agg.volume),
   ranges           |-> Append(st.ranges, agg.high - agg.low),
   volumePerTrade   |->
     IF agg.transactions > 0
       THEN SortFloat64s(Append(st.volumePerTrade,
                                Ratio(agg.volume, agg.transactions)))
       ELSE st.volumePerTrade]

\* the loop body with the bearish expression assigned to both flags
EnhanceStepCopiedFlag(st, agg) ==
  [enhanced         |->
     LET bar == EnhanceBar(st, agg)
     IN  Append(st.enhanced,
                [bar EXCEPT !.BullishEngulfing = bar.BearishEngulfing]),
   cumulativeVolume |-> st.cumulativeVolume + agg.volume,
   cumulativeVWAP   |-> st.cumulativeVWAP + agg.volume * agg.vwap,
   volumes          |-> Append(st.volumes, agg.volume),
   ranges           |-> Append(st.ranges, agg.high - agg.low),
   volumePerTrade   |->
     IF agg.transactions > 0
       THEN SortFloat64s(Append(st.volumePerTrade,
                                Ratio(agg.volume, agg.transactions)))
       ELSE st.volumePerTrade]

\* One iteration of the loop of enhanceData: the state of the loop after it.
\* quantile sorts the slice it is given, which is volumePerTrade itself.
EnhanceStep(st, agg) ==
  [enhanced         |-> Append(st.enhanced, EnhanceBar(st, agg)),
   cumulativeVolume |-> st.cumulativeVolume + agg.volume,
   cumulativeVWAP   |-> st.cumulativeVWAP + agg.volume * agg.vwap,
   volumes          |-> Append(st.volumes, agg.volume),
   ranges           |-> Append(st.ranges, agg.high - agg.low),
   volumePerTrade   |->
     IF agg.transactions > 0
       THEN SortFloat64s(Append(st.volumePerTrade,
                                Ratio(agg.volume, agg.transactions)))
       ELSE st.volumePerTrade]

EnhanceStart ==
  [enhanced |-> <<>>, cumulativeVolume |-> 0, cumulativeVWAP |-> 0,
   volumes |-> <<>>, ranges |-> <<>>, volumePerTrade |-> <<>>]

RECURSIVE EnhanceLoop(_, _)
EnhanceLoop(st, bars) ==
  IF bars = <<>> THEN st
  ELSE EnhanceLoop(EnhanceStep(st, Head(bars)), Tail(bars))

\* enhanceData: the bars the iterator yields, enriched in one pass
enhanceData(bars) == EnhanceLoop(EnhanceStart, bars).enhanced

\* The signal messages. A message is kept as the rule that wrote it and the
\* values formatted into it; MessageText below is the string.
Message(rule, bar, amount) ==
  [rule |-> rule, time |-> bar.Timestamp, amount |-> amount,
   close |-> bar.Close]

\* the rules of generateSignals with the directional flow check moved in
\* front of the volatility rule
BarSignalsFlowEarly(bars, i) ==
  LET bar == bars[i]
      up   == bar.Close > bar.Open
      down == bar.Close < bar.Open
  IN  (IF bar.IsDoji THEN <<Message("DOJI", bar, 0)>> ELSE <<>>)
      \o (IF bar.BearishEngulfing
            THEN <<Message("BEARISH_ENGULFING", bar, 0)>> ELSE <<>>)
      \o (IF bar.BullishEngulfing
            THEN <<Message("BULLISH_ENGULFING", bar, 0)>> ELSE <<>>)
      \o (IF ZScoreAbove(bar.VolumeZScore, 2) /\ down
            THEN <<Message("VOLUME_SELL", bar, bar.Volume)>> ELSE <<>>)
      \o (IF ZScoreAbove(bar.VolumeZScore, 2) /\ up
            THEN <<Message("VOLUME_BUY", bar, bar.Volume)>> ELSE <<>>)
      \o (IF bar.InstitutionalFlow /\ up /\ ZScoreAbove(bar.VolumeZScore, 1)
            THEN <<Message("FLOW_UP", bar, bar.Volume)>>
          ELSE IF bar.InstitutionalFlow /\ down
                    /\ ZScoreAbove(bar.VolumeZScore, 1)
            THEN <<Message("FLOW_DOWN", bar, bar.Volume)>>
          ELSE <<>>)
      \o (IF i > 1 /\ 2 * bar.ATR.n * bars[i-1].ATR.d
                        > 3 * bars[i-1].ATR.n * bar.ATR.d
            THEN <<Message("VOLATILITY", bar, bar.ATR)>> ELSE <<>>)

\* the rules of generateSignals with the volume-spike sell rule not looking
\* at the direction of the bar
BarSignalsSpikeSells(bars, i) ==
  LET bar == bars[i]
      up   == bar.Close > bar.Open
      down == bar.Close < bar.Open
  IN  (IF bar.IsDoji THEN <<Message("DOJI", bar, 0)>> ELSE <<>>)
      \o (IF bar.BearishEngulfing
            THEN <<Message("BEARISH_ENGULFING", bar, 0)>> ELSE <<>>)
      \o (IF bar.BullishEngulfing
            THEN <<Message("BULLISH_ENGULFING", bar, 0)>> ELSE <<>>)
      \o (IF ZScoreAbove(bar.VolumeZScore, 2)
            THEN <<Message("VOLUME_SELL", bar, bar.Volume)>> ELSE <<>>)
      \o (IF ZScoreAbove(bar.VolumeZScore, 2) /\ up
            THEN <<Message("VOLUME_BUY", bar, bar.Volume)>> ELSE <<>>)
      \o (IF i > 1 /\ 2 * bar.ATR.n * bars[i-1].ATR.d
                        > 3 * bars[i-1].ATR.n * bar.ATR.d
            THEN <<Message("VOLATILITY", bar, bar.ATR)>> ELSE <<>>)
      \o (IF bar.InstitutionalFlow /\ up /\ ZScoreAbove(bar.VolumeZScore, 1)
            THEN <<Message("FLOW_UP", bar, bar.Volume)>>
          ELSE IF bar.InstitutionalFlow /\ down
                    /\ ZScoreAbove(bar.VolumeZScore, 1)
            THEN <<Message("FLOW_DOWN", bar, bar.Volume)>>
          ELSE <<>>)

\* the messages of the bar at index i (from 1) of bars, in the order of the
\* if statements of generateSignals
BarSignals(bars, i) ==
  LET bar == bars[i]
      up   == bar.Close > bar.Open
      down == bar.Close < bar.Open
  IN  (IF bar.IsDoji THEN <<Message("DOJI", bar, 0)>> ELSE <<>>)
      \o (IF bar.BearishEngulfing
            THEN <<Message("BEARISH_ENGULFING", bar, 0)>> ELSE <<>>)
      \o (IF bar.BullishEngulfing
            THEN <<Message("BULLISH_ENGULFING", bar, 0)>> ELSE <<>>)
      \o (IF ZScoreAbove(bar.VolumeZScore, 2) /\ down
            THEN <<Message("VOLUME_SELL", bar, bar.Volume)>> ELSE <<>>)
      \o (IF ZScoreAbove(bar.VolumeZScore, 2) /\ up
            THEN <<Message("VOLUME_BUY", bar, bar.Volume)>> ELSE <<>>)
      \o (IF i > 1 /\ 2 * bar.ATR.n * bars[i-1].ATR.d
                        > 3 * bars[i-1].ATR.n * bar.ATR.d
            THEN <<Message("VOLATILITY", bar, bar.ATR)>> ELSE <<>>)
      \o (IF bar.InstitutionalFlow /\ up /\ ZScoreAbove(bar.VolumeZScore, 1)
            THEN <<Message("FLOW_UP", bar, bar.Volume)>>
          ELSE IF bar.InstitutionalFlow /\ down
                    /\ ZScoreAbove(bar.VolumeZScore, 1)
            THEN <<Message("FLOW_DOWN", bar, bar.Volume)>>
          ELSE <<>>)

\* the number of leading bars generateSignals skips
SkippedBars == 3

\* the loop of generateSignals skipping two bars instead of three
RECURSIVE SignalsFromSkipsTwo(_, _)
SignalsFromSkipsTwo(bars, i) ==
  IF i > Len(bars) THEN <<>>
  ELSE (IF i <= 2 THEN <<>> ELSE BarSignals(bars, i))
         \o SignalsFromSkipsTwo(bars, i + 1)

RECURSIVE SignalsFrom(_, _)
SignalsFrom(bars, i) ==
  IF i > Len(bars) THEN <<>>
  ELSE (IF i <= SkippedBars THEN <<>> ELSE BarSignals(bars, i))
         \o SignalsFrom(bars, i + 1)

\* generateSignals
generateSignals(bars) == SignalsFrom(bars, 1)


\* ------------------------------------------------------------------------
\* The text of the messages: strings are sequences of characters
\* ------------------------------------------------------------------------
Digits == <<"0", "1", "2", "3", "4", "5", "6", "7", "8", "9">>

RECURSIVE FormatInt(_)
FormatInt(n) ==
  IF n < 10 THEN <<Digits[n + 1]>>
  ELSE FormatInt(n \div 10) \o <<Digits[(n % 10) + 1]>>

TwoDigits(n) == <<Digits[(n \div 10) + 1], Digits[(n % 10) + 1]>>

\* Timestamp.Format("15:04") of a time given in minutes since midnight
FormatClock(t) == TwoDigits((t \div 60) % 24) \o <<":">> \o TwoDigits(t % 60)

\* %.2f of a price given in cents
FormatPrice(c) == FormatInt(c \div 100) \o <<".">> \o TwoDigits(c % 100)

\* %.2f and %.0f of a whole volume
FormatVolume2(v) == FormatInt(v) \o <<".", "0", "0">>
FormatVolume0(v) == FormatInt(v)

\* %.2f of an ATR given as a fraction of cents, rounded to the nearest cent
FormatATR(a) == FormatPrice((2 * a.n + a.d) \div (2 * a.d))

\* " STRADDLE: Doji Pattern - Indecision Closing price ("
TextDoji1 ==
  <<" ", "S", "T", "R", "A", "D", "D", "L", "E", ":", " ", "D", "o", "j",
    "i", " ", "P", "a", "t", "t", "e", "r", "n", " ", "-", " ", "I", "n",
    "d", "e", "c", "i", "s", "i", "o", "n", " ", "C", "l", "o", "s", "i",
    "n", "g", " ", "p", "r", "i", "c", "e", " ", "(">>

\* " PUT: Bearish Engulfing - Reversal Likely Closing price ("
TextBearish1 ==
  <<" ", "P", "U", "T", ":", " ", "B", "e", "a", "r", "i", "s", "h", " ",
    "E", "n", "g", "u", "l", "f", "i", "n", "g", " ", "-", " ", "R", "e",
    "v", "e", "r", "s", "a", "l", " ", "L", "i", "k", "e", "l", "y", " ",
    "C", "l", "o", "s", "i", "n", "g", " ", "p", "r", "i", "c", "e", " ",
    "(">>

\* " CALL: Bullish Engulfing - Reversal Likely Closing price ("
TextBullish1 ==
  <<" ", "C", "A", "L", "L", ":", " ", "B", "u", "l", "l", "i", "s", "h",
    " ", "E", "n", "g", "u", "l", "f", "i", "n", "g", " ", "-", " ", "R",
    "e", "v", "e", "r", "s", "a", "l", " ", "L", "i", "k", "e", "l", "y",
    " ", "C", "l", "o", "s", "i", "n", "g", " ", "p", "r", "i", "c", "e",
    " ", "(">>

\* " PUT: Volume Spike + Price Drop ("
TextVolumeSell1 ==
  <<" ", "P", "U", "T", ":", " ", "V", "o", "l", "u", "m", "e", " ", "S",
    "p", "i", "k", "e", " ", "+", " ", "P", "r", "i", "c", "e", " ", "D",
    "r", "o", "p", " ", "(">>

\* ") - Institutional Selling Likely Closing price ("
TextVolumeSell2 ==
  <<")", " ", "-", " ", "I", "n", "s", "t", "i", "t", "u", "t", "i", "o",
    "n", "a", "l", " ", "S", "e", "l", "l", "i", "n", "g", " ", "L", "i",
    "k", "e", "l", "y", " ", "C", "l", "o", "s", "i", "n", "g", " ", "p",
    "r", "i", "c", "e", " ", "(">>

\* " CALL: Volume Spike + Institutional Flow ("
TextVolumeBuy1 ==
  <<" ", "C", "A", "L", "L", ":", " ", "V", "o", "l", "u", "m", "e", " ",
    "S", "p", "i", "k", "e", " ", "+", " ", "I", "n", "s", "t", "i", "t",
    "u", "t", "i", "o", "n", "a", "l", " ", "F", "l", "o", "w", " ", "(">>

\* ") - Institutional Buying Likely Closing price ("
TextVolumeBuy2 ==
  <<")", " ", "-", " ", "I", "n", "s", "t", "i", "t", "u", "t", "i", "o",
    "n", "a", "l", " ", "B", "u", "y", "i", "n", "g", " ", "L", "i", "k",
    "e", "l", "y", " ", "C", "l", "o", "s", "i", "n", "g", " ", "p", "r",
    "i", "c", "e", " ", "(">>

\* " STRADDLE: Volatility Expansion (ATR "
TextVolatility1 ==
  <<" ", "S", "T", "R", "A", "D", "D", "L", "E", ":", " ", "V", "o", "l",
    "a", "t", "i", "l", "i", "t", "y", " ", "E", "x", "p", "a", "n", "s",
    "i", "o", "n", " ", "(", "A", "T", "R", " ">>

\* ") - Institutional Activity Likely Closing price ("
TextVolatility2 ==
  <<")", " ", "-", " ", "I", "n", "s", "t", "i", "t", "u", "t", "i", "o",
    "n", "a", "l", " ", "A", "c", "t", "i", "v", "i", "t", "y", " ", "L",
    "i", "k", "e", "l", "y", " ", "C", "l", "o", "s", "i", "n", "g", " ",
    "p", "r", "i", "c", "e", " ", "(">>

\* " UP: Institutional Buying Detected (Volume "
TextFlowUp1 ==
  <<" ", "U", "P", ":", " ", "I", "n", "s", "t", "i", "t", "u", "t", "i",
    "o", "n", "a", "l", " ", "B", "u", "y", "i", "n", "g", " ", "D", "e",
    "t", "e", "c", "t", "e", "d", " ", "(", "V", "o", "l", "u", "m", "e",
    " ">>

\* " DOWN: Institutional Selling Detected (Volume "
TextFlowDown1 ==
  <<" ", "D", "O", "W", "N", ":", " ", "I", "n", "s", "t", "i", "t", "u",
    "t", "i", "o", "n", "a", "l", " ", "S", "e", "l", "l", "i", "n", "g",
    " ", "D", "e", "t", "e", "c", "t", "e", "d", " ", "(", "V", "o", "l",
    "u", "m", "e", " ">>

\* ") - Closing price ("
TextFlow2 ==
  <<")", " ", "-", " ", "C", "l", "o", "s", "i", "n", "g", " ", "p", "r",
    "i", "c", "e", " ", "(">>

TextClose == <<")">>

\* a signal that was not written by generateSignals, given as its string
Literal(text) == [rule |-> "TEXT", text |-> text]

\* the string of a signal: the one fmt.Sprintf builds for a message of
\* generateSignals, or the string given
MessageText(m) ==
  IF m.rule = "TEXT" THEN m.text ELSE
  FormatClock(m.time) \o
  (CASE m.rule = "DOJI" -> TextDoji1
     [] m.rule = "BEARISH_ENGULFING" -> TextBearish1
     [] m.rule = "BULLISH_ENGULFING" -> TextBullish1
     [] m.rule = "VOLUME_SELL" ->
          TextVolumeSell1 \o FormatVolume2(m.amount) \o TextVolumeSell2
     [] m.rule = "VOLUME_BUY" ->
          TextVolumeBuy1 \o FormatVolume2(m.amount) \o TextVolumeBuy2
     [] m.rule = "VOLATILITY" ->
          TextVolatility1 \o FormatATR(m.amount) \o TextVolatility2
     [] m.rule = "FLOW_UP" ->
          TextFlowUp1 \o FormatVolume0(m.amount) \o TextFlow2
     [] m.rule = "FLOW_DOWN" ->
          TextFlowDown1 \o FormatVolume0(m.amount) \o TextFlow2)
  \o FormatPrice(m.close) \o TextClose

LowerCase ==
  <<"a", "b", "c", "d", "e", "f", "g", "h", "i", "j", "k", "l", "m", "n",
    "o", "p", "q", "r", "s", "t", "u", "v", "w", "x", "y", "z">>
UpperCase ==
  <<"A", "B", "C", "D", "E", "F", "G", "H", "I", "J", "K", "L", "M", "N",
    "O", "P", "Q", "R", "S", "T", "U", "V", "W", "X", "Y", "Z">>

\* strings.ToUpper
ToUpperChar(c) ==
  IF \E k \in 1..26 : LowerCase[k] = c
    THEN UpperCase[CHOOSE k \in 1..26 : LowerCase[k] = c]
    ELSE c
ToUpper(str) == [k \in 1..Len(str) |-> ToUpperChar(str[k])]

\* strings.Contains
Contains(str, sub) ==
  \E k \in 1..(Len(str) - Len(sub) + 1) :
    SubSeq(str, k, k + Len(sub) - 1) = sub

KeyCALL == <<"C", "A", "L", "L">>
KeyUP == <<"U", "P">>
KeyBUY == <<"B", "U", "Y">>
KeyPUT == <<"P", "U", "T">>
KeyDOWN == <<"D", "O", "W", "N">>
KeySELL == <<"S", "E", "L", "L">>
KeySTRADDLE == <<"S", "T", "R", "A", "D", "D", "L", "E">>

\* the switch with the case of the SELL keywords written first
BucketSellFirst(text) ==
  LET s == ToUpper(text)
  IN  IF Contains(s, KeyPUT) \/ Contains(s, KeyDOWN)
           \/ Contains(s, KeySELL)
        THEN "SELL"
      ELSE IF Contains(s, KeyCALL) \/ Contains(s, KeyUP)
                \/ Contains(s, KeyBUY)
        THEN "BUY"
      ELSE IF Contains(s, KeySTRADDLE)
        THEN "STRADDLE"
      ELSE "HOLD"

\* the switch without its case for STRADDLE
BucketWithoutStraddle(text) ==
  LET s == ToUpper(text)
  IN  IF Contains(s, KeyCALL) \/ Contains(s, KeyUP) \/ Contains(s, KeyBUY)
        THEN "BUY"
      ELSE IF Contains(s, KeyPUT) \/ Contains(s, KeyDOWN)
                \/ Contains(s, KeySELL)
        THEN "SELL"
      ELSE "HOLD"

\* the switch of getFinalDecisionFromSignals: the bucket of one signal
Bucket(text) ==
  LET s == ToUpper(text)
  IN  IF Contains(s, KeyCALL) \/ Contains(s, KeyUP) \/ Contains(s, KeyBUY)
        THEN "BUY"
      ELSE IF Contains(s, KeyPUT) \/ Contains(s, KeyDOWN)
                \/ Contains(s, KeySELL)
        THEN "SELL"
      ELSE IF Contains(s, KeySTRADDLE)
        THEN "STRADDLE"
      ELSE "HOLD"

Buckets == {"BUY", "SELL", "STRADDLE", "HOLD"}

\* the map counts after the first loop
RECURSIVE CountBuckets(_)
CountBuckets(signals) ==
  IF signals = <<>> THEN [b \in Buckets |-> 0]
  ELSE LET counts == CountBuckets(SubSeq(signals, 1, Len(signals) - 1))
           b == Bucket(MessageText(signals[Len(signals)]))
       IN  [counts EXCEPT ![b] = @ + 1]

\* the second loop with v >= maxCount in place of v > maxCount
RECURSIVE ScanMaxNotStrict(_, _, _, _)
ScanMaxNotStrict(order, counts, final, maxCount) ==
  IF order = <<>> THEN final
  ELSE IF counts[Head(order)] >= maxCount
    THEN ScanMaxNotStrict(Tail(order), counts, Head(order),
                          counts[Head(order)])
  ELSE ScanMaxNotStrict(Tail(order), counts, final, maxCount)

\* the second loop, for one order in which range yields the keys
RECURSIVE ScanMax(_, _, _, _)
ScanMax(order, counts, final, maxCount) ==
  IF order = <<>> THEN final
  ELSE IF counts[Head(order)] > maxCount
    THEN ScanMax(Tail(order), counts, Head(order), counts[Head(order)])
  ELSE ScanMax(Tail(order), counts, final, maxCount)

\* range over a map yields the keys in an order that is not specified
KeyOrders ==
  {o \in [1..4 -> Buckets] : \A a, b \in 1..4 : a # b => o[a] # o[b]}

\* getFinalDecisionFromSignals: the decisions it can return
getFinalDecisionFromSignals(signals) ==
  UNION {{ScanMax(o, counts, "HOLD", counts["HOLD"]) : o \in KeyOrders} :
           counts \in {CountBuckets(signals)}}

\* ------------------------------------------------------------------------
\* The single-run path: data
\* ------------------------------------------------------------------------
\* The bars the market-data service can return, without their timestamps.
\*   UP        a rising bar
\*   BIGDOWN   a falling bar that opens above the close of UP and closes
\*             below its open: a bearish engulfing after UP
\*   BIGUP     a rising bar that opens below the close of BIGDOWN and
\*             closes above its open: a bullish engulfing after BIGDOWN
\*   SPIN      a falling bar with a body below a tenth of its range that
\*             engulfs UP: a doji and a bearish engulfing at once
\*   FLAT      a bar without range, volume or transactions
BarShapes == {"UP", "BIGDOWN", "BIGUP", "SPIN", "FLAT"}

ShapeBar(shape) ==
  CASE shape = "UP" ->
         [open |-> 10000, close |-> 10400, high |-> 10500, low |-> 9900,
          volume |-> 10, transactions |-> 10, vwap |-> 10200]
    [] shape = "BIGDOWN" ->
         [open |-> 11000, close |-> 9400, high |-> 11100, low |-> 9300,
          volume |-> 30, transactions |-> 12, vwap |-> 10100]
    [] shape = "BIGUP" ->
         [open |-> 9200, close |-> 11200, high |-> 11300, low |-> 9100,
          volume |-> 40, transactions |-> 8, vwap |-> 10300]
    [] shape = "SPIN" ->
         [open |-> 10500, close |-> 9900, high |-> 14000, low |-> 7000,
          volume |-> 5, transactions |-> 5, vwap |-> 10200]
    [] shape = "FLAT" ->
         [open |-> 10000, close |-> 10000, high |-> 10000, low |-> 10000,
          volume |-> 0, transactions |-> 0, vwap |-> 0]

\* the first bar is the one of 09:30; the handler asks for 5 minute bars
FirstBarTime == 570
BarMinutes == 5

\* the item of the iterator at position i for a bar of the given shape
Agg(shape, i) ==
  LET b == ShapeBar(shape)
  IN  [timestamp |-> FirstBarTime + BarMinutes * (i - 1),
       open |-> b.open, close |-> b.close, high |-> b.high, low |-> b.low,
       volume |-> b.volume, transactions |-> b.transactions,
       vwap |-> b.vwap]

Feeds == UNION {[1..n -> BarShapes] : n \in 0..MaxBars}

\* What ListAggs returns: an iterator that yields its items and then stops,
\* or one whose first page fails, which yields nothing; enhanceData does not
\* look at the iterator's error.
Iterators ==
  {[items |-> [i \in 1..Len(f) |-> Agg(f[i], i)], failed |-> FALSE] :
     f \in Feeds}
    \cup {[items |-> <<>>, failed |-> TRUE]}

\* the date of the day of the request, and the start and end dates a caller
\* can pass: one in the layout 2006-01-02 and one in another layout
Today == "2024-03-05"
DateStrings == {"2024-03-04", "03/04/2024"}
EndDateStrings == {Today, "03/05/2024"}

\* time.Parse("2006-01-02", str): the error it returns, "" for none
ParseDate(str) ==
  IF str \in {"2024-03-04", "2024-03-05"} THEN "" ELSE "parsing time"

\* what db.Create can return: no error, or one of two storage errors
DbErrors == {"", "connection refused", "duplicate key"}

\* what a call of db.Create did: called is FALSE when it was not made
NoCreate == [called |-> FALSE, err |-> ""]
Created(dbErr) == [called |-> TRUE, err |-> dbErr]

NewDeepSearchService(startDuration, endDuration, timeSpan, multiplier, ticker, userId) ==
  [startDuration |-> startDuration, endDuration |-> endDuration,
   timeSpan |-> timeSpan, multiplier |-> multiplier, ticker |-> ticker,
   userId |-> userId]

\* the services a caller of the package can build
Services ==
  {NewDeepSearchService(a, b, "minute", 5, "SPY", "orchestrator") :
     a \in DateStrings, b \in EndDateStrings}

\* GetPolygonAggregate: the error it returns, "" for none; it fails only
\* when a date does not parse, the request itself is made by the iterator
GetPolygonAggregate(timeSpan, startDate, endDate, multiplier) ==
  IF ParseDate(startDate) # "" THEN ParseDate(startDate)
  ELSE ParseDate(endDate)

\* ------------------------------------------------------------------------
\* The single-run path: storeSignalsInDatabase and AnalyseMain
\* ------------------------------------------------------------------------
\* storeSignalsInDatabase with the error of db.Create replaced by one of its
\* own
storeSignalsReplacesError(s, bars, signals, ticker) ==
  IF Len(bars) = 0 \/ Len(signals) = 0
    THEN {[err |-> "no bars or signals", rows |-> <<>>, db |-> NoCreate]}
    ELSE {[err |-> "failed to store signals", rows |-> <<>>,
           db |-> Created(dbErr)] : dbErr \in DbErrors \ {""}}
           \cup
         {[err |-> "",
           db |-> Created(""),
           rows |-> <<[StartDate |-> bars[1].Timestamp,
                       EndDate |-> bars[Len(bars)].Timestamp,
                       Interval |-> "minute",
                       WindowSize |-> Len(bars),
                       Ticker |-> ticker,
                       AnalysisType |-> "technical",
                       Signals |-> signals,
                       PolyStartDuration |-> s.startDuration,
                       PolyEndDuration |-> s.endDuration,
                       PolyTimeSpan |-> s.timeSpan,
                       PolyMultiplier |-> s.multiplier,
                       FinalDecision |-> finalDecision,
                       UserId |-> s.userId]>>]
            : finalDecision \in getFinalDecisionFromSignals(signals)}

\* storeSignalsInDatabase: the error returned, the rows inserted and what
\* db.Create did, for every error db.Create can return and every decision
\* getFinalDecisionFromSignals can return
storeSignalsInDatabase(s, bars, signals, ticker) ==
  IF Len(bars) = 0 \/ Len(signals) = 0
    THEN {[err |-> "no bars or signals", rows |-> <<>>, db |-> NoCreate]}
    ELSE {[err |-> dbErr, rows |-> <<>>, db |-> Created(dbErr)] :
            dbErr \in DbErrors \ {""}}
           \cup
         {[err |-> "",
           db |-> Created(""),
           rows |-> <<[StartDate |-> bars[1].Timestamp,
                       EndDate |-> bars[Len(bars)].Timestamp,
                       Interval |-> "minute",
                       WindowSize |-> Len(bars),
                       Ticker |-> ticker,
                       AnalysisType |-> "technical",
                       Signals |-> signals,
                       PolyStartDuration |-> s.startDuration,
                       PolyEndDuration |-> s.endDuration,
                       PolyTimeSpan |-> s.timeSpan,
                       PolyMultiplier |-> s.multiplier,
                       FinalDecision |-> finalDecision,
                       UserId |-> s.userId]>>]
            : finalDecision \in getFinalDecisionFromSignals(signals)}

\* What a call of AnalyseMain did:
\*   fatal      log.Fatal was called: the process exits, nothing is returned
\*   err        the error returned, "" for nil
\*   rows       the rows inserted
\*   enriched   enhanceData was called, enhanced is the length of its result
\*   generated  generateSignals was called, nsignals is the length of its
\*              result
\*   db         what db.Create of storeSignalsInDatabase did
Outcome(fatal, err, rows, enriched, enhanced, generated, nsignals, db) ==
  [fatal |-> fatal, err |-> err, rows |-> rows, enriched |-> enriched,
   enhanced |-> enhanced, generated |-> generated, nsignals |-> nsignals,
   db |-> db]

\* AnalyseMain with the test for an empty enriched sequence left out
AnalyseMainNoEmptyCheck(s, iter) ==
  LET fetchErr ==
        GetPolygonAggregate(s.timeSpan, s.startDuration, s.endDuration,
                            s.multiplier)
      enhancedBars == enhanceData(iter.items)
      signals == generateSignals(enhancedBars)
  IN  IF fetchErr # ""
        THEN {Outcome(TRUE, fetchErr, <<>>, FALSE, 0, FALSE, 0, NoCreate)}
      ELSE IF Len(signals) > 0 /\ Len(enhancedBars) > 0
        THEN {Outcome(FALSE, st.err, st.rows, TRUE, Len(enhancedBars), TRUE,
                      Len(signals), st.db) :
                st \in storeSignalsInDatabase(s, enhancedBars, signals,
                                              s.ticker)}
      ELSE {Outcome(FALSE, "no signals or enhanced bars", <<>>, TRUE,
                    Len(enhancedBars), TRUE, Len(signals), NoCreate)}

\* AnalyseMain returning nil when there is no signal, as
\* AnalyseWithTechnicals does
AnalyseMainQuietWithoutSignals(s, iter) ==
  LET fetchErr ==
        GetPolygonAggregate(s.timeSpan, s.startDuration, s.endDuration,
                            s.multiplier)
      enhancedBars == enhanceData(iter.items)
      signals == generateSignals(enhancedBars)
  IN  IF fetchErr # ""
        THEN {Outcome(TRUE, fetchErr, <<>>, FALSE, 0, FALSE, 0, NoCreate)}
      ELSE IF Len(enhancedBars) = 0
        THEN {Outcome(FALSE, "no enhanced bars", <<>>, TRUE, 0, FALSE, 0,
                      NoCreate)}
      ELSE IF Len(signals) > 0 /\ Len(enhancedBars) > 0
        THEN {Outcome(FALSE, st.err, st.rows, TRUE, Len(enhancedBars), TRUE,
                      Len(signals), st.db) :
                st \in storeSignalsInDatabase(s, enhancedBars, signals,
                                              s.ticker)}
      ELSE {Outcome(FALSE, "", <<>>, TRUE, Len(enhancedBars), TRUE,
                    Len(signals), NoCreate)}

\* AnalyseMain with the error of storeSignalsInDatabase not looked at
AnalyseMainIgnoresStoreError(s, iter) ==
  LET fetchErr ==
        GetPolygonAggregate(s.timeSpan, s.startDuration, s.endDuration,
                            s.multiplier)
      enhancedBars == enhanceData(iter.items)
      signals == generateSignals(enhancedBars)
  IN  IF fetchErr # ""
        THEN {Outcome(TRUE, fetchErr, <<>>, FALSE, 0, FALSE, 0, NoCreate)}
      ELSE IF Len(enhancedBars) = 0
        THEN {Outcome(FALSE, "no enhanced bars", <<>>, TRUE, 0, FALSE, 0,
                      NoCreate)}
      ELSE IF Len(signals) > 0 /\ Len(enhancedBars) > 0
        THEN {Outcome(FALSE, "", st.rows, TRUE, Len(enhancedBars), TRUE,
                      Len(signals), st.db) :
                st \in storeSignalsInDatabase(s, enhancedBars, signals,
                                              s.ticker)}
      ELSE {Outcome(FALSE, "no signals or enhanced bars", <<>>, TRUE,
                    Len(enhancedBars), TRUE, Len(signals), NoCreate)}

\* AnalyseMain: the outcomes of a call on service s when ListAggs returns
\* iter
AnalyseMain(s, iter) ==
  LET fetchErr ==
        GetPolygonAggregate(s.timeSpan, s.startDuration, s.endDuration,
                            s.multiplier)
      enhancedBars == enhanceData(iter.items)
      signals == generateSignals(enhancedBars)
  IN  IF fetchErr # ""
        THEN {Outcome(TRUE, fetchErr, <<>>, FALSE, 0, FALSE, 0, NoCreate)}
      ELSE IF Len(enhancedBars) = 0
        THEN {Outcome(FALSE, "no enhanced bars", <<>>, TRUE, 0, FALSE, 0,
                      NoCreate)}
      ELSE IF Len(signals) > 0 /\ Len(enhancedBars) > 0
        THEN {Outcome(FALSE, st.err, st.rows, TRUE, Len(enhancedBars), TRUE,
                      Len(signals), st.db) :
                st \in storeSignalsInDatabase(s, enhancedBars, signals,
                                              s.ticker)}
      ELSE {Outcome(FALSE, "no signals or enhanced bars", <<>>, TRUE,
                    Len(enhancedBars), TRUE, Len(signals), NoCreate)}

\* Every call of AnalyseMain the environment allows, with what it did:
\*   fetchFailed  GetPolygonAggregate returned an error or the iterator
\*                failed
\*   nbars        the number of bars the iterator yielded
AnalyseMainCalls ==
  UNION {{[s |-> x[1],
           fetchFailed |->
             \/ x[2].failed
             \/ GetPolygonAggregate(x[1].timeSpan, x[1].startDuration,
                                    x[1].endDuration, x[1].multiplier) # "",
           nbars |-> IF o.enriched THEN Len(x[2].items) ELSE 0,
           out |-> o] : o \in AnalyseMain(x[1], x[2])} :
         x \in Services \X Iterators}

\* ------------------------------------------------------------------------
\* The single-run path: initial state and actions
\* ------------------------------------------------------------------------
NoRun ==
  [via |-> "none", status |-> 0, started |-> FALSE, fetchFailed |-> FALSE,
   nbars |-> 0, before |-> 0,
   out |-> Outcome(FALSE, "", <<>>, FALSE, 0, FALSE, 0, NoCreate)]

RInit ==
  /\ alive = TRUE
  /\ store = <<>>
  /\ requests = 0
  /\ runs = 0
  /\ lastRun = NoRun

\* the effect of a call c of AnalyseMain on the process and the database
Ran(c, via, status) ==
  /\ alive' = ~c.out.fatal
  /\ store' = store \o c.out.rows
  /\ lastRun' = [via |-> via, status |-> status, started |-> TRUE,
                 fetchFailed |-> c.fetchFailed, nbars |-> c.nbars,
                 before |-> Len(store), out |-> c.out]

\* HandleTriggerAnalysis, lines 48-103 of the deep search handler: the
\* parameters are checked, the request is recorded and AnalyseMain is run on
\* a service for the days from start_duration to today
HandleTriggerAnalysis ==
  /\ alive
  /\ runs < MaxRuns
  /\ runs' = runs + 1
  /\ \E ticker \in {"", "SPY"}, startDuration \in DateStrings \cup {""} :
       IF ticker = "" \/ startDuration = "" \/ ParseDate(startDuration) # ""
         THEN /\ lastRun' = [NoRun EXCEPT !.via = "handler", !.status = 400,
                                          !.before = Len(store)]
              /\ UNCHANGED <<alive, store, requests>>
         ELSE /\ requests' = requests + 1
              /\ \E c \in AnalyseMainCalls :
                   /\ c.s = NewDeepSearchService(startDuration, Today,
                                                 "minute", 5, ticker,
                                                 "orchestrator")
                   /\ Ran(c, "handler",
                          IF c.out.fatal THEN 0
                          ELSE IF c.out.err # "" THEN 500 ELSE 200)
  /\ UNCHANGED <<cvars, fvars>>

\* AnalyseMain called on a service built by any other caller of the package
CallAnalyseMain ==
  /\ alive
  /\ runs < MaxRuns
  /\ runs' = runs + 1
  /\ \E c \in AnalyseMainCalls : Ran(c, "direct", 0)
  /\ UNCHANGED <<requests, cvars, fvars>>

RNext ==
  \/ HandleTriggerAnalysis
  \/ CallAnalyseMain

\* ------------------------------------------------------------------------
\* The functions called on their own: initial state
\* ------------------------------------------------------------------------
\* no call of either function has been made
\* generateSignals not called yet, and no request parsed yet
NoScan == [stage |-> "none", bars |-> <<>>, signals |-> <<>>, err |-> ""]
NoQuery == [stage |-> "none", date |-> <<>>, analysis_date |-> <<>>,
            status |-> 0, analysisDate |-> <<>>]

FInit ==
  /\ given = <<>>
  /\ decided = <<>>
  /\ source = <<>>
  /\ loop = EnhanceStart
  /\ scan = NoScan
  /\ query = NoQuery

\* ------------------------------------------------------------------------
\* getFinalDecisionFromSignals called on its own
\* ------------------------------------------------------------------------
\* largest number of signals in a list, and of calls made on one list
MaxSignals == 3
MaxCalls == 2

\* The strings the lists are made of, each with the bucket the switch is to
\* put it in: one string for each keyword, in lower, upper or mixed case,
\* one without a keyword and two with keywords of two buckets.
WordCall ==
  [bucket |-> "BUY",
   text |->
    <<"c", "a", "l", "l">>]
WordUp ==
  [bucket |-> "BUY",
   text |->
    <<"U", "p">>]
WordBuy ==
  [bucket |-> "BUY",
   text |->
    <<"b", "u", "y">>]
WordPut ==
  [bucket |-> "SELL",
   text |->
    <<"P", "u", "t">>]
WordDown ==
  [bucket |-> "SELL",
   text |->
    <<"d", "o", "w", "n">>]
WordSell ==
  [bucket |-> "SELL",
   text |->
    <<"S", "E", "L", "L">>]
WordStraddle ==
  [bucket |-> "STRADDLE",
   text |->
    <<"s", "t", "r", "a", "d", "d", "l", "e">>]
WordWait ==
  [bucket |-> "HOLD",
   text |->
    <<"w", "a", "i", "t">>]
WordPutOrCall ==
  [bucket |-> "BUY",
   text |->
    <<"p", "u", "t", " ", "o", "r", " ", "c", "a", "l", "l">>]
WordSellStraddle ==
  [bucket |-> "SELL",
   text |->
    <<"s", "e", "l", "l", " ", "s", "t", "r", "a", "d", "d", "l", "e">>]

Vocabulary ==
  {WordCall, WordUp, WordBuy, WordPut, WordDown, WordSell, WordStraddle,
   WordWait, WordPutOrCall, WordSellStraddle}

\* the signal lists passed
SignalLists ==
  UNION {[1..n -> {Literal(w.text) : w \in Vocabulary}] : n \in 0..MaxSignals}

\* a call of getFinalDecisionFromSignals on the list given: the map counts
\* after the first loop and the decision returned
Decide ==
  /\ Len(decided) < MaxCalls
  /\ \E final \in getFinalDecisionFromSignals(given) :
       decided' = Append(decided, [counts |-> CountBuckets(given),
                                   final |-> final])
  /\ UNCHANGED <<given, source, loop, scan, query, cvars, rvars>>

InitDecide ==
  /\ CInit
  /\ RInit
  /\ given \in SignalLists
  /\ decided = <<>>
  /\ source = <<>>
  /\ loop = EnhanceStart
  /\ scan = NoScan
  /\ query = NoQuery

SpecDecide == InitDecide /\ [][Decide]_vars

\* ------------------------------------------------------------------------
\* enhanceData called on its own
\* ------------------------------------------------------------------------
\* number of items of the long inputs: more than the ATR period and the
\* z-score lookback
MaxLong == 16

\* Two more bars for the long inputs:
\*   HALT   a bar without range, volume or transactions that carries the
\*          vwap of UP and SPIN
\*   RAMP   the bar UP with a volume per transaction equal to its position
\*          in the input
\*   WICK   a falling bar with the range of SPIN, a body inside that of
\*          SPIN's and a large volume in few transactions
StreamShapes == BarShapes \cup {"HALT", "RAMP", "WICK"}

\* the item of the iterator at position i for a bar of the given shape
Item(shape, i) ==
  CASE shape = "HALT" -> [Agg("FLAT", i) EXCEPT !.vwap = ShapeBar("UP").vwap]
    [] shape = "RAMP" -> [Agg("UP", i) EXCEPT !.volume = 10 * i,
                                              !.transactions = 10]
    [] shape = "WICK" -> [Agg("SPIN", i) EXCEPT !.open = 10300,
                                                !.close = 10000,
                                                !.volume = 60,
                                                !.transactions = 6]
    [] OTHER -> Agg(shape, i)

\* the long inputs: k bars of one shape, then bars of another
LongSources ==
  {[i \in 1..MaxLong |-> Item(IF i <= k THEN a ELSE b, i)] :
     a \in StreamShapes, b \in StreamShapes, k \in 0..(MaxLong - 1)}

\* the inputs: every short input of the single-run path, and the long ones
Sources == {it.items : it \in Iterators} \cup LongSources

\* bars.Next() returns true: one iteration of the loop of enhanceData
Iterate ==
  /\ Len(loop.enhanced) < Len(source)
  /\ loop' = EnhanceStep(loop, source[Len(loop.enhanced) + 1])
  /\ UNCHANGED <<source, given, decided, scan, query, cvars, rvars>>

InitEnhance ==
  /\ CInit
  /\ RInit
  /\ given = <<>>
  /\ decided = <<>>
  /\ source \in Sources
  /\ loop = EnhanceStart
  /\ scan = NoScan
  /\ query = NoQuery

SpecEnhance == InitEnhance /\ [][Iterate]_vars

\* ------------------------------------------------------------------------
\* AnalyseMain run step by step on short and long inputs, and
\* generateSignals called on bars that enhanceData did not build
\* ------------------------------------------------------------------------
\* An enriched bar with every flag set, a z-score of 3 and an ATR that
\* doubles from bar to bar, closing above or below its open
MarkedBar(dir, i) ==
  [Timestamp    |-> FirstBarTime + BarMinutes * (i - 1),
   Open         |-> 10000,
   Close        |-> IF dir = "UP" THEN 10400 ELSE 9600,
   High         |-> 10500,
   Low          |-> 9500,
   Volume       |-> 40,
   Transactions |-> 8,
   VWAP         |-> 10200,
   CumulativeVWAP |-> Ratio(10200, 1),
   ATR          |-> Ratio(1000 * (2 ^ i), 1),
   VolumeZScore |-> [dev |-> 3, sq |-> 1, w |-> 1],
   IsDoji       |-> TRUE,
   BearishEngulfing  |-> TRUE,
   BullishEngulfing  |-> TRUE,
   InstitutionalFlow |-> TRUE]

\* the hand-made inputs of generateSignals: up to MaxBars marked bars
MarkedInputs ==
  UNION {{[i \in 1..n |-> MarkedBar(f[i], i)] : f \in [1..n -> {"UP", "DOWN"}]}
           : n \in 0..MaxBars}

\* the service the handler builds for a request of today
HandlerService ==
  NewDeepSearchService("2024-03-04", Today, "minute", 5, "SPY",
                       "orchestrator")

\* lines 150-158 of AnalyseMain, once the loop of enhanceData has ended: an
\* empty result is an error, otherwise generateSignals is called on it
CallGenerate ==
  /\ scan.stage = "none"
  /\ Len(loop.enhanced) = Len(source)
  /\ scan' =
       IF Len(loop.enhanced) = 0
         THEN [NoScan EXCEPT !.stage = "returned",
                             !.err = "no enhanced bars"]
         ELSE [stage |-> "generated", bars |-> loop.enhanced,
               signals |-> generateSignals(loop.enhanced), err |-> ""]
  /\ UNCHANGED <<given, decided, source, loop, query, cvars, rvars>>

\* lines 160-175 of AnalyseMain: the signals are stored when there are any
StoreOrFail ==
  /\ scan.stage = "generated"
  /\ IF Len(scan.signals) > 0 /\ Len(scan.bars) > 0
       THEN \E st \in storeSignalsInDatabase(HandlerService, scan.bars,
                                             scan.signals,
                                             HandlerService.ticker) :
              /\ store' = store \o st.rows
              /\ scan' = [scan EXCEPT !.stage = "returned", !.err = st.err]
       ELSE /\ scan' = [scan EXCEPT !.stage = "returned",
                                    !.err = "no signals or enhanced bars"]
            /\ UNCHANGED store
  /\ UNCHANGED <<alive, requests, runs, lastRun>>
  /\ UNCHANGED <<given, decided, source, loop, query, cvars>>

\* generateSignals called on hand-made bars
CallOnMarked ==
  /\ scan.stage = "none"
  /\ source = <<>>
  /\ \E bars \in MarkedInputs :
       scan' = [stage |-> "direct", bars |-> bars,
                signals |-> generateSignals(bars), err |-> ""]
  /\ UNCHANGED <<given, decided, source, loop, query, cvars, rvars>>

SignalsNext == Iterate \/ CallGenerate \/ StoreOrFail \/ CallOnMarked

SpecSignals == InitEnhance /\ [][SignalsNext]_vars


\* ------------------------------------------------------------------------
\* The specifications
\* ------------------------------------------------------------------------
Init == CInit /\ RInit /\ FInit

\* the single-run path
SpecRun == Init /\ [][RNext]_vars

\* the correlator
Next == CNext

Spec == Init /\ [][Next]_vars

\* The correlator with the scheduling the Go runtime gives: as long as the
\* handler or a worker can take a step, one of them does. A worker at its
\* lookup can always take its step, so this includes that a lookup left
\* alone with nothing else to run returns.
FairSpec == Init /\ [][Next]_vars /\ WF_vars(Next)

\* ------------------------------------------------------------------------
\* The date parameters of the correlator: lines 116-154 of
\* GetEarningsWithBigMoney
\* ------------------------------------------------------------------------
\* time.Sunday and time.Saturday
Sunday == 0
Saturday == 6

\* the number of days of a month
DaysIn(year, month) ==
  LET leap == year % 4 = 0 /\ (year % 100 # 0 \/ year % 400 = 0)
  IN  IF month = 2 THEN (IF leap THEN 29 ELSE 28)
      ELSE IF month \in {4, 6, 9, 11} THEN 30 ELSE 31

\* a time.Time at midnight UTC: a civil date
NoTime == [ok |-> FALSE, year |-> 0, month |-> 0, day |-> 0]

\* time.Date: a day below 1 or above the length of the month is carried
\* into the neighbouring month
RECURSIVE Date(_, _, _)
Date(year, month, day) ==
  IF day < 1
    THEN IF month = 1 THEN Date(year - 1, 12, day + 31)
         ELSE Date(year, month - 1, day + DaysIn(year, month - 1))
  ELSE IF day > DaysIn(year, month)
    THEN IF month = 12 THEN Date(year + 1, 1, day - 31)
         ELSE Date(year, month + 1, day - DaysIn(year, month))
  ELSE [ok |-> TRUE, year |-> year, month |-> month, day |-> day]

\* t.AddDate(0, 0, days)
AddDate(t, days) == Date(t.year, t.month, t.day + days)

\* the days of the year before the first of a month
RECURSIVE DaysBefore(_, _)
DaysBefore(year, month) ==
  IF month = 1 THEN 0
  ELSE DaysBefore(year, month - 1) + DaysIn(year, month - 1)

\* t.Weekday(): the days since Monday 1 January of the year 1, modulo 7,
\* with Sunday as 0
Weekday(t) ==
  LET y == t.year - 1
      days == 365 * y + (y \div 4) - (y \div 100) + (y \div 400)
                + DaysBefore(t.year, t.month) + t.day - 1
  IN  (days + 1) % 7

\* the number a string of digits stands for, -1 when a character is not a
\* digit
RECURSIVE Atoi(_)
Atoi(str) ==
  IF str = <<>> THEN 0
  ELSE LET front == Atoi(SubSeq(str, 1, Len(str) - 1))
           last  == str[Len(str)]
       IN  IF front < 0 \/ ~(\E k \in 1..10 : Digits[k] = last) THEN -1
           ELSE 10 * front + (CHOOSE k \in 1..10 : Digits[k] = last) - 1

\* time.Parse("2006-01-02", str): four digits, two digits and two digits
\* with "-" between them, a month of the year and a day of that month;
\* NoTime stands for an error
timeParse(str) ==
  IF Len(str) # 10 THEN NoTime
  ELSE LET year  == Atoi(SubSeq(str, 1, 4))
           month == Atoi(SubSeq(str, 6, 7))
           day   == Atoi(SubSeq(str, 9, 10))
       IN  IF str[5] # "-" \/ str[8] # "-" THEN NoTime
           ELSE IF year < 0 \/ month < 0 \/ day < 0 THEN NoTime
           ELSE IF month < 1 \/ month > 12 THEN NoTime
           ELSE IF day < 1 \/ day > DaysIn(year, month) THEN NoTime
           ELSE [ok |-> TRUE, year |-> year, month |-> month, day |-> day]

\* t.Format("2006-01-02")
timeFormat(t) ==
  TwoDigits(t.year \div 100) \o TwoDigits(t.year % 100) \o <<"-">>
    \o TwoDigits(t.month) \o <<"-">> \o TwoDigits(t.day)

\* lines 147-153: the day before the event, and the Friday before it when
\* that day is a Sunday or a Saturday
DefaultAnalysisDateSundayOnly(earningsDate) ==
  LET analysisDate == AddDate(earningsDate, -1)
  IN  IF Weekday(analysisDate) = Sunday THEN AddDate(analysisDate, -2)
      ELSE analysisDate

DefaultAnalysisDate(earningsDate) ==
  LET analysisDate == AddDate(earningsDate, -1)
  IN  IF Weekday(analysisDate) = Sunday THEN AddDate(analysisDate, -2)
      ELSE IF Weekday(analysisDate) = Saturday
        THEN AddDate(analysisDate, -1)
      ELSE analysisDate

\* number of days of the longest stretch of event dates requested
MaxDays == 80

\* the day after a day of the calendar
NextDay(t) ==
  IF t.day < DaysIn(t.year, t.month) THEN [t EXCEPT !.day = @ + 1]
  ELSE IF t.month < 12 THEN [t EXCEPT !.month = @ + 1, !.day = 1]
  ELSE [t EXCEPT !.year = @ + 1, !.month = 1, !.day = 1]

\* n days of the calendar in a row, from t on
RECURSIVE DaysFrom(_, _)
DaysFrom(t, n) ==
  IF n = 0 THEN <<>> ELSE <<t>> \o DaysFrom(NextDay(t), n - 1)

\* The stretches of the calendar the event dates are taken from, each with
\* the day of the week of its first day: Monday 25 December 2023 to past
\* 29 February 2024, Saturday 20 February 2100 and Monday 20 February 2023
\* to past the end of a February of 28 days.
Almanac ==
  <<[first |-> 1,
     days |-> DaysFrom([ok |-> TRUE, year |-> 2023, month |-> 12,
                        day |-> 25], MaxDays)],
    [first |-> 6,
     days |-> DaysFrom([ok |-> TRUE, year |-> 2100, month |-> 2,
                        day |-> 20], 14)],
    [first |-> 1,
     days |-> DaysFrom([ok |-> TRUE, year |-> 2023, month |-> 2,
                        day |-> 20], 14)]>>

\* the values of the query parameter date: none, every day of the almanac
\* and strings time.Parse rejects
DateParams ==
  {<<>>}
    \cup UNION {{timeFormat(Almanac[g].days[k]) :
                   k \in 1..Len(Almanac[g].days)} : g \in 1..Len(Almanac)}
    \cup {<<"2", "0", "2", "4", "-", "0", "2", "-", "3", "0">>,
          <<"2", "0", "2", "3", "-", "0", "2", "-", "2", "9">>,
          <<"2", "1", "0", "0", "-", "0", "2", "-", "2", "9">>,
          <<"2", "0", "2", "4", "-", "1", "3", "-", "0", "1">>,
          <<"2", "0", "2", "4", "-", "0", "0", "-", "1", "0">>,
          <<"2", "0", "2", "4", "-", "0", "3", "-", "0", "0">>,
          <<"0", "3", "/", "0", "4", "/", "2", "0", "2", "4">>,
          <<"2", "0", "2", "4", "-", "3", "-", "4">>,
          <<"2", "0", "2", "4", "-", "0", "3", "-", "0", "4", "Z">>}

\* the values of the query parameter analysis_date: none, a Saturday, a
\* leap day, a holiday and two strings time.Parse rejects
AnalysisParams ==
  {<<>>,
   <<"2", "0", "2", "4", "-", "0", "3", "-", "0", "2">>,
   <<"2", "0", "2", "4", "-", "0", "2", "-", "2", "9">>,
   <<"2", "0", "2", "4", "-", "0", "1", "-", "0", "1">>,
   <<"2", "0", "2", "4", "-", "0", "2", "-", "3", "0">>,
   <<"2", "0", "2", "4", "/", "0", "3", "/", "0", "1">>}

\* lines 116-154: the two date parameters are parsed and the analysis date
\* is resolved; a missing or malformed date and a malformed analysis_date
\* end the request with status 400
ResolveDates ==
  /\ query.stage = "none"
  /\ \E dateStr \in DateParams, analysisDateStr \in AnalysisParams :
       LET earningsDate == timeParse(dateStr)
           supplied     == timeParse(analysisDateStr)
           bad == [stage |-> "returned", date |-> dateStr,
                   analysis_date |-> analysisDateStr, status |-> 400,
                   analysisDate |-> NoTime]
       IN  query' =
             IF dateStr = <<>> \/ ~earningsDate.ok THEN bad
             ELSE IF analysisDateStr # <<>> /\ ~supplied.ok THEN bad
             ELSE [stage |-> "resolved", date |-> dateStr,
                   analysis_date |-> analysisDateStr, status |-> 0,
                   analysisDate |->
                     IF analysisDateStr # <<>> THEN supplied
                     ELSE DefaultAnalysisDate(earningsDate)]
  /\ UNCHANGED <<given, decided, source, loop, scan, cvars, rvars>>

SpecResolve == Init /\ [][ResolveDates]_vars


\* ------------------------------------------------------------------------
\* Properties of the correlator
\* ------------------------------------------------------------------------
Tickers == (1..MaxEvents) \cup {Volatile}

\* the handler is past wg.Wait() of a non-empty batch
JoinPassed == earnings # <<>> /\ hpc \in {"summary", "done"}

\* the batch of a non-empty event list has been answered
BatchAnswered == earnings # <<>> /\ hpc = "done"

EventsOf(t) == {i \in 1..Len(earnings) : earnings[i] = t}
ResultsOf(t) == {j \in 1..Len(results) : results[j].ticker = t}

\* the workers between acquiring and releasing the semaphore
InFlight == {i \in Tasks : tpc[i] \in {"analyze", "lock", "append", "unlock"}}

FailedLookups == {i \in 1..Len(earnings) : answer[i].kind \in FailureKinds}
ZeroTradeLookups ==
  {i \in 1..Len(earnings) : answer[i].kind = "ok" /\ answer[i].trades = 0}

\* what a lookup's answer means for the result of its event
ExpectedResult(i) ==
  [ticker |-> earnings[i],
   direction |-> IF answer[i].kind \in FailureKinds THEN "ERROR"
                 ELSE IF answer[i].trades = 0 THEN "NO_DATA"
                 ELSE answer[i].direction,
   hasError |-> answer[i].kind \in FailureKinds]

Shape(r) == [ticker |-> r.ticker, direction |-> r.direction,
             hasError |-> r.error # ""]

\* C1: once the join is passed the result list holds exactly one result per
\* input event (as many results of a ticker as events of that ticker, N in
\* all), and at no time does it hold more results of a ticker than there are
\* events of it.
C1_OneResultPerEvent ==
  /\ \A t \in Tickers : Cardinality(ResultsOf(t)) <= Cardinality(EventsOf(t))
  /\ JoinPassed =>
       /\ Len(results) = Len(earnings)
       /\ \A t \in Tickers :
            Cardinality(ResultsOf(t)) = Cardinality(EventsOf(t))

C1_Witness ==
  /\ JoinPassed
  /\ Len(earnings) > SemCap
  /\ Len(results) = Len(earnings)

\* C2: at most 5 workers are between acquiring and releasing the semaphore,
\* the channel holds one token per such worker, and a worker still waiting
\* for a slot has not started its lookup.
C2_AtMostFiveInFlight ==
  /\ Cardinality(InFlight) <= SemCap
  /\ semaphore = Cardinality(InFlight)
  /\ \A i \in Tasks :
       tpc[i] \in {"idle", "acquire"} =>
         answer[i] = NoAnswer /\ local[i] = NoResult

C2_Witness ==
  /\ Cardinality(InFlight) = SemCap
  /\ \E i \in Tasks : tpc[i] = "acquire"

\* C3: a failing lookup leaves the other events alone and the batch alive:
\* when the batch is answered the status is 200 and the results are, up to
\* order, what each event's own answer determines, a failing event giving
\* ERROR with an error message and the others their own direction with none.
C3_FailureIsolated ==
  BatchAnswered =>
    /\ response.status = 200
    /\ Len(response.results) = Len(earnings)
    /\ \A i \in 1..Len(earnings) :
         Cardinality({j \in 1..Len(response.results) :
                        Shape(response.results[j]) = ExpectedResult(i)})
           = Cardinality({k \in 1..Len(earnings) :
                            ExpectedResult(k) = ExpectedResult(i)})

C3_Witness ==
  /\ BatchAnswered
  /\ response.status = 200
  /\ FailedLookups # {}
  /\ \E i \in 1..Len(earnings) :
       /\ i \notin FailedLookups
       /\ \E j \in 1..Len(response.results) :
            /\ response.results[j].ticker = earnings[i]
            /\ response.results[j].direction = answer[i].direction
  /\ \E j \in 1..Len(response.results) :
       /\ response.results[j].direction = "ERROR"
       /\ response.results[j].error # ""

\* C4: the summary loop runs, and the response is built, only when every
\* worker has appended its result and signalled done: then no worker is
\* pending, in flight or holding the mutex, and the response carries the
\* complete result list.
C4_SummaryAfterJoin ==
  /\ hpc = "summary" =>
       /\ \A i \in 1..Len(earnings) : tpc[i] = "done"
       /\ ~mu
       /\ wg = 0
       /\ Len(results) = Len(earnings)
  /\ BatchAnswered =>
       /\ \A i \in 1..Len(earnings) : tpc[i] = "done"
       /\ response.results = results

C4_Witness ==
  /\ hpc = "summary"
  /\ Len(earnings) > SemCap
  /\ \A i \in 1..Len(earnings) : tpc[i] = "done"

\* C5: the summary counts the results by direction, ERROR and NO_DATA
\* together as errors, and the total is the number of results; with one
\* failing and one zero-trade lookup among N the error count is 2 and the
\* other N-2 results are counted under the directions of their answers.
DirCount(rs, dirs) == Cardinality({j \in 1..Len(rs) : rs[j].direction \in dirs})
AnswerCount(d) ==
  Cardinality({i \in 1..Len(earnings) :
                 /\ answer[i].kind = "ok"
                 /\ answer[i].trades > 0
                 /\ answer[i].direction = d})

C5_SummaryCounts ==
  BatchAnswered =>
    LET rs == response.results
        s  == response.summary
    IN  /\ s.bullish = DirCount(rs, {"BUYING_PRESSURE"})
        /\ s.bearish = DirCount(rs, {"SELLING_PRESSURE"})
        /\ s.neutral = DirCount(rs, {"NEUTRAL"})
        /\ s.errors = DirCount(rs, {"ERROR", "NO_DATA"})
        /\ s.total = Len(rs)
        /\ response.total = Len(rs)
        /\ (Cardinality(FailedLookups) = 1 /\ Cardinality(ZeroTradeLookups) = 1)
             => /\ s.errors = 2
                /\ s.bullish = AnswerCount("BUYING_PRESSURE")
                /\ s.bearish = AnswerCount("SELLING_PRESSURE")
                /\ s.neutral = AnswerCount("NEUTRAL")
                /\ s.bullish + s.bearish + s.neutral = Len(earnings) - 2

C5_Witness ==
  /\ BatchAnswered
  /\ Len(earnings) > SemCap
  /\ Cardinality(FailedLookups) = 1
  /\ Cardinality(ZeroTradeLookups) = 1
  /\ response.summary.errors = 2
  /\ response.summary.bullish = 2

\* C6: a failed events fetch ends the request with one error response: no
\* worker was started, there is no result and no summary, and the fetch was
\* called once.
C6_FetchFailureTerminal ==
  fetched = "error" =>
    /\ hpc = "done"
    /\ response.status = 500
    /\ DOMAIN response = {"status", "error", "details"}
    /\ fetchCalls = 1
    /\ spawned = 0
    /\ \A i \in Tasks : tpc[i] = "idle" /\ answer[i] = NoAnswer
    /\ wg = 0
    /\ semaphore = 0
    /\ results = <<>>

C6_Witness ==
  /\ fetched = "error"
  /\ hpc = "done"
  /\ response.status = 500

\* C7: an empty event list is answered with success, an empty result list
\* and an all-zero summary; no worker is started and no semaphore slot taken.
C7_EmptyListIsSuccess ==
  (fetched = "ok" /\ earnings = <<>>) =>
    /\ hpc = "done"
    /\ response = [status |-> 200, total |-> 0, results |-> <<>>,
                   summary |-> [bullish |-> 0, bearish |-> 0, neutral |-> 0,
                                errors |-> 0, total |-> 0]]
    /\ spawned = 0
    /\ \A i \in Tasks : tpc[i] = "idle"
    /\ semaphore = 0
    /\ wg = 0
    /\ results = <<>>

C7_Witness ==
  /\ fetched = "ok"
  /\ earnings = <<>>
  /\ response.status = 200

\* ------------------------------------------------------------------------
\* Properties of the single run
\* ------------------------------------------------------------------------
\* the last call of AnalyseMain left the database as it found it
NothingPersisted ==
  /\ lastRun.out.rows = <<>>
  /\ Len(store) = lastRun.before

\* C8: when the market-data fetch of a run fails, AnalyseMain returns an
\* error to its caller, the process keeps running and no record is stored
\* for that run.
C8_FetchFailureReported ==
  (lastRun.started /\ lastRun.fetchFailed) =>
    /\ alive
    /\ ~lastRun.out.fatal
    /\ lastRun.out.err # ""
    /\ NothingPersisted

\* C9: enriching an empty bar sequence yields an empty enriched sequence,
\* and a run whose enriched sequence is empty returns "no enhanced bars"
\* before signal generation and stores no record.
C9_EmptyEnrichmentIsNoData ==
  /\ enhanceData(<<>>) = <<>>
  /\ (lastRun.started /\ lastRun.out.enriched /\ lastRun.nbars = 0) =>
       lastRun.out.enhanced = 0
  /\ (lastRun.started /\ lastRun.out.enriched /\ lastRun.out.enhanced = 0) =>
       /\ lastRun.out.err = "no enhanced bars"
       /\ ~lastRun.out.generated
       /\ ~lastRun.out.fatal
       /\ alive
       /\ NothingPersisted

C9_Witness ==
  /\ lastRun.started
  /\ ~lastRun.fetchFailed
  /\ lastRun.out.enriched
  /\ lastRun.nbars = 0
  /\ lastRun.out.err = "no enhanced bars"

\* C10: a run with a non-empty bar sequence and an empty signal list returns
\* an error and stores no record; no stored record has zero signals.
C10_NoSignalsIsError ==
  /\ (lastRun.started /\ lastRun.out.enriched /\ lastRun.nbars > 0
        /\ lastRun.out.nsignals = 0) =>
       /\ lastRun.out.generated
       /\ lastRun.out.err # ""
       /\ NothingPersisted
  /\ \A i \in 1..Len(store) : Len(store[i].Signals) > 0

C10_Witness ==
  /\ Len(store) > 0
  /\ lastRun.started
  /\ lastRun.nbars > 0
  /\ lastRun.out.generated
  /\ lastRun.out.nsignals = 0
  /\ lastRun.out.err = "no signals or enhanced bars"

\* C11: when db.Create fails, AnalyseMain returns the error db.Create
\* returned, unchanged, and the run is not reported as a success.
C11_StoreErrorVerbatim ==
  (lastRun.started /\ lastRun.out.db.called /\ lastRun.out.db.err # "") =>
    /\ lastRun.out.err = lastRun.out.db.err
    /\ ~lastRun.out.fatal
    /\ lastRun.via = "handler" => lastRun.status = 500

C11_Witness ==
  /\ lastRun.started
  /\ lastRun.via = "handler"
  /\ lastRun.out.db.called
  /\ lastRun.out.db.err = "duplicate key"
  /\ lastRun.out.err = "duplicate key"

\* the last call of AnalyseMain returned nil
Succeeded(run) == run.started /\ ~run.out.fatal /\ run.out.err = ""

\* C12: a successful run adds exactly one record to the store, a failing
\* run adds none, and the records already stored stay as they are.
C12_StoreOnlyGrows ==
  [][/\ SubSeq(store', 1, Len(store)) = store
     /\ Len(store') = Len(store) + (IF Succeeded(lastRun') THEN 1 ELSE 0)]_vars

C12_Witness ==
  /\ Len(store) = 2
  /\ lastRun.before = 1
  /\ Succeeded(lastRun)

\* ------------------------------------------------------------------------
\* Properties of the decision
\* ------------------------------------------------------------------------
\* the bucket the switch is to put a signal of the list given in
Expected(m) == (CHOOSE w \in Vocabulary : w.text = m.text).bucket

\* the number of signals of the list given that belong in bucket b
Tally(b) == Cardinality({i \in 1..Len(given) : Expected(given[i]) = b})

\* C13: a bucket other than HOLD whose count is above the count of every
\* other bucket is the decision; when no bucket other than HOLD has a count
\* above the count of HOLD, the empty list included, the decision is HOLD.
C13_StrictMaximumOrHold ==
  \A k \in 1..Len(decided) :
    /\ \A b \in Buckets \ {"HOLD"} :
         (\A o \in Buckets \ {b} : Tally(b) > Tally(o)) =>
           decided[k].final = b
    /\ (\A b \in Buckets \ {"HOLD"} : Tally(b) <= Tally("HOLD")) =>
         decided[k].final = "HOLD"

C13_Witness ==
  /\ given = <<Literal(WordCall.text), Literal(WordCall.text),
               Literal(WordPut.text)>>
  /\ Len(decided) = 1
  /\ decided[1].final = "BUY"

\* C14: two calls of getFinalDecisionFromSignals on the same list return the
\* same decision.
C14_SameListSameDecision ==
  \A j, k \in 1..Len(decided) : decided[j].final = decided[k].final

\* C15: every signal is counted in one bucket, the first of BUY, SELL,
\* STRADDLE, HOLD of which it holds a keyword in any case, and the four
\* counts add up to the number of signals.
C15_OneBucketPerSignal ==
  /\ \A w \in Vocabulary : Bucket(w.text) = w.bucket
  /\ \A k \in 1..Len(decided) :
       /\ \A b \in Buckets : decided[k].counts[b] = Tally(b)
       /\ decided[k].counts["BUY"] + decided[k].counts["SELL"]
            + decided[k].counts["STRADDLE"] + decided[k].counts["HOLD"]
            = Len(given)

C15_Witness ==
  /\ given = <<Literal(WordPutOrCall.text), Literal(WordSellStraddle.text),
               Literal(WordWait.text)>>
  /\ Len(decided) = 1
  /\ decided[1].counts =
       [b \in Buckets |-> IF b = "STRADDLE" THEN 0 ELSE 1]

\* ------------------------------------------------------------------------
\* Properties of the enrichment
\* ------------------------------------------------------------------------
\* the number of items read so far
Read == Len(loop.enhanced)

\* C16: enriching the first k bars of an input gives the first k enriched
\* bars of the whole input: one enriched bar for each bar, in the order of
\* the input, and a later bar changes no earlier one.
C16_PrefixOfWhole ==
  LET whole == enhanceData(source)
      part  == enhanceData(SubSeq(source, 1, Read))
  IN  /\ Read <= Len(source)
      /\ Len(whole) = Len(source)
      /\ \A i \in 1..Len(source) : whole[i].Timestamp = source[i].timestamp
      /\ part = SubSeq(whole, 1, Read)
      /\ loop.enhanced = part

C16_Witness ==
  /\ Read >= ATRPeriod
  /\ Read < Len(source)
  /\ \E i \in 1..Read : loop.enhanced[i].InstitutionalFlow
  /\ \E i \in 1..Read : loop.enhanced[i].BearishEngulfing

\* every bar of the input carries the same vwap
ConstantVWAP ==
  \A i, j \in 1..Len(source) : source[i].vwap = source[j].vwap

\* the volume of the first k bars of the input
RunningVolume(k) == SumSeq([i \in 1..k |-> source[i].volume])

\* C17 as stated: when every bar carries the vwap V, the cumulative vwap of
\* every enriched bar is V, whatever the volumes.
C17_ConstantVWAP ==
  ConstantVWAP =>
    \A k \in 1..Read :
      loop.enhanced[k].CumulativeVWAP.n
        = source[k].vwap * loop.enhanced[k].CumulativeVWAP.d

\* C17 amended: when every bar carries the vwap V, the cumulative vwap of
\* an enriched bar is V once the running volume is above 0, and 0 for the
\* bars before that.
C17_ConstantVWAPOnceVolume ==
  ConstantVWAP =>
    \A k \in 1..Read :
      IF RunningVolume(k) > 0
        THEN loop.enhanced[k].CumulativeVWAP.n
               = source[k].vwap * loop.enhanced[k].CumulativeVWAP.d
        ELSE loop.enhanced[k].CumulativeVWAP = Zero

C17_Witness ==
  /\ ConstantVWAP
  /\ Read >= 3
  /\ source[1].vwap > 0
  /\ RunningVolume(1) = 0
  /\ RunningVolume(2) > 0
  /\ source[2].volume # source[3].volume

\* the range of the bar at position i of the input
RangeOf(i) == source[i].high - source[i].low

\* C18: the first 13 enriched bars have the ATR 0, and every bar from the
\* 14th on has the mean of the 14 ranges up to it, which for the 14th are
\* all the ranges seen.
C18_ATRWarmUp ==
  \A k \in 1..Read :
    IF k < 14
      THEN loop.enhanced[k].ATR = Zero
      ELSE /\ loop.enhanced[k].ATR.d > 0
           /\ 14 * loop.enhanced[k].ATR.n
                = SumSeq([i \in 1..14 |-> RangeOf(k - 14 + i)])
                    * loop.enhanced[k].ATR.d

C18_Witness ==
  /\ Read >= 15
  /\ loop.enhanced[13].ATR = Zero
  /\ loop.enhanced[14].ATR.n > 0
  /\ RangeOf(1) # RangeOf(15)

\* C19: no enriched bar is both a bearish and a bullish engulfing, and the
\* first enriched bar is neither.
C19_EngulfingExclusive ==
  \A k \in 1..Read :
    /\ ~(loop.enhanced[k].BearishEngulfing
           /\ loop.enhanced[k].BullishEngulfing)
    /\ k = 1 => /\ ~loop.enhanced[k].BearishEngulfing
                /\ ~loop.enhanced[k].BullishEngulfing

C19_Witness ==
  /\ Read >= 3
  /\ \E k \in 1..Read : loop.enhanced[k].BearishEngulfing
  /\ \E k \in 1..Read : loop.enhanced[k].BullishEngulfing

\* the bars among the first k of the input that have transactions, and the
\* volume per transaction of one of them
Counted(k) == {i \in 1..k : source[i].transactions > 0}
Vpt(i) == Ratio(source[i].volume, source[i].transactions)

\* the value at index j, from 0, of the ascending sort of the volumes per
\* transaction of the first k bars: fewer than j + 1 values are below it
\* and at least j + 1 are not above it
RankValue(k, j) ==
  Vpt(CHOOSE i \in Counted(k) :
        /\ Cardinality({h \in Counted(k) : Greater(Vpt(i), Vpt(h))}) <= j
        /\ Cardinality({h \in Counted(k) : ~Greater(Vpt(h), Vpt(i))}) > j)

\* C20: the bar read last is flagged exactly when it has transactions and
\* its volume per transaction is above the value at index
\* floor(0.9 * (n - 1)) of the ascending sort of the n values so far, its
\* own included; a bar without transactions adds no value and is not
\* flagged; for the values 1..10 that value is 9.
C20_FlowAbovePercentile ==
  /\ quantile([i \in 1..10 |-> Ratio(i, 1)], 9) = Ratio(9, 1)
  /\ Len(loop.volumePerTrade) = Cardinality(Counted(Read))
  /\ Read > 0 =>
       (loop.enhanced[Read].InstitutionalFlow
          <=> /\ source[Read].transactions > 0
              /\ Greater(Vpt(Read),
                         RankValue(Read,
                                   (9 * (Cardinality(Counted(Read)) - 1))
                                     \div 10)))

\* a flagged bar that is not above every value before it
C20_Witness ==
  /\ Read >= 12
  /\ loop.enhanced[Read].InstitutionalFlow
  /\ \E k \in 1..(Read - 1) :
       /\ source[k].transactions > 0
       /\ ~Greater(Vpt(Read), Vpt(k))

\* ------------------------------------------------------------------------
\* Properties of generateSignals (SpecSignals)
\* ------------------------------------------------------------------------
\* generateSignals has returned: scan holds its argument and its result
Generated == scan.stage \in {"generated", "direct", "returned"}

\* the positions (from 1) of the bars of the argument a signal can be of:
\* those with the time of day the message starts with
BarsOf(m) == {i \in 1..Len(scan.bars) : scan.bars[i].Timestamp = m.time}

\* C21: generateSignals never emits a signal for the bars at indices 0, 1
\* and 2, whatever their flags and indicators are; an input of at most 3
\* bars yields an empty signal list.
C21_FirstThreeBarsSilent ==
  Generated =>
    /\ \A k \in 1..Len(scan.signals) :
         \A i \in BarsOf(scan.signals[k]) : i > 3
    /\ Len(scan.bars) <= 3 => scan.signals = <<>>

\* three bars with every flag set, a z-score of 3 and a doubling ATR were
\* passed and no signal came back
C21_Witness ==
  /\ scan.stage = "direct"
  /\ Len(scan.bars) = 3
  /\ \A i \in 1..3 : scan.bars[i].IsDoji /\ scan.bars[i].InstitutionalFlow
  /\ scan.signals = <<>>

\* the place of a rule in the order the spec gives: doji, bearish
\* engulfing, bullish engulfing, volume-spike sell, volume-spike buy,
\* volatility expansion, directional flow
RuleRank(rule) ==
  CASE rule = "DOJI" -> 1
    [] rule = "BEARISH_ENGULFING" -> 2
    [] rule = "BULLISH_ENGULFING" -> 3
    [] rule = "VOLUME_SELL" -> 4
    [] rule = "VOLUME_BUY" -> 5
    [] rule = "VOLATILITY" -> 6
    [] rule \in {"FLOW_UP", "FLOW_DOWN"} -> 7

\* C22: the signal list is ordered by bar and, within a bar, by rule: of
\* two signals the one of the earlier bar comes first, and two signals of
\* the same bar come in the order doji, bearish engulfing, bullish
\* engulfing, volume-spike sell, volume-spike buy, volatility expansion,
\* directional flow.
C22_BarOrderThenRuleOrder ==
  Generated =>
    \A j \in 1..Len(scan.signals), k \in 1..Len(scan.signals) :
      j < k =>
        \/ scan.signals[j].time < scan.signals[k].time
        \/ /\ scan.signals[j].time = scan.signals[k].time
           /\ RuleRank(scan.signals[j].rule) < RuleRank(scan.signals[k].rule)

\* enhanceData built a bar that gave a volume-spike, a volatility and a
\* directional signal, after a bar that gave a signal too
C22_Witness ==
  /\ scan.stage = "generated"
  /\ \E j, k, l, n \in 1..Len(scan.signals) :
       /\ j < k /\ k < l /\ l < n
       /\ scan.signals[j].time < scan.signals[k].time
       /\ scan.signals[k].time = scan.signals[n].time
       /\ scan.signals[k].rule \in {"VOLUME_SELL", "VOLUME_BUY"}
       /\ scan.signals[l].rule = "VOLATILITY"
       /\ scan.signals[n].rule \in {"FLOW_UP", "FLOW_DOWN"}

\* ------------------------------------------------------------------------
\* Properties of the date parameters (SpecResolve)
\* ------------------------------------------------------------------------
\* the day of the week of day k of stretch g of the almanac, counted from
\* the day of the week of its first day
WeekdayAt(g, k) == (Almanac[g].first + k - 1) % 7

\* the places of the working days of stretch g before day k
WeekdaysBefore(g, k) == {j \in 1..(k - 1) : WeekdayAt(g, j) \notin {0, 6}}

\* C23: without analysis_date the resolved analysis date is the latest day
\* from Monday to Friday strictly before the event date, so never a
\* Saturday or a Sunday; a valid analysis_date is used unchanged.
C23_ResolvedAnalysisDate ==
  query.stage = "resolved" =>
    IF query.analysis_date # <<>>
      THEN timeFormat(query.analysisDate) = query.analysis_date
      ELSE \A g \in 1..Len(Almanac) :
             \A k \in 1..Len(Almanac[g].days) :
               (/\ timeFormat(Almanac[g].days[k]) = query.date
                /\ WeekdaysBefore(g, k) # {})
                 => \E j \in WeekdaysBefore(g, k) :
                      /\ \A i \in WeekdaysBefore(g, k) : i <= j
                      /\ query.analysisDate = Almanac[g].days[j]

\* an event of Monday 4 March 2024 without analysis_date was resolved to
\* Friday 1 March
C23_Witness ==
  /\ query.stage = "resolved"
  /\ query.analysis_date = <<>>
  /\ query.date = <<"2", "0", "2", "4", "-", "0", "3", "-", "0", "4">>
  /\ timeFormat(query.analysisDate)
       = <<"2", "0", "2", "4", "-", "0", "3", "-", "0", "1">>

\* ------------------------------------------------------------------------
\* More properties of the correlator (Spec)
\* ------------------------------------------------------------------------
\* the workers whose lookup has returned with a decoded answer
DecodedLookups == {i \in Tasks : answer[i].kind = "ok"}

\* C24: the result of a lookup that succeeds and decodes has direction
\* NO_DATA when the service reports total_trades = 0, whatever direction it
\* returned, and the direction of the service otherwise; it carries no error
\* message.
C24_ZeroTradesIsNoData ==
  \A i \in DecodedLookups :
    /\ answer[i].trades = 0 => local[i].direction = "NO_DATA"
    /\ answer[i].trades # 0 => local[i].direction = answer[i].direction
    /\ local[i].error = ""

\* one lookup came back with no trade and SELLING_PRESSURE and gave NO_DATA,
\* another with trades gave the direction of the service
C24_Witness ==
  /\ \E i \in DecodedLookups :
       /\ answer[i].trades = 0
       /\ answer[i].direction = "SELLING_PRESSURE"
       /\ local[i].direction = "NO_DATA"
  /\ \E i \in DecodedLookups :
       /\ answer[i].trades > 0
       /\ local[i].direction = "BUYING_PRESSURE"

\* the workers between mu.Lock() and mu.Unlock()
Holders == {i \in Tasks : tpc[i] \in {"append", "unlock"}}

\* C25: appends to the shared result list are mutually exclusive: never are
\* two workers between mu.Lock and mu.Unlock, the mutex is locked exactly
\* while a worker is there (so it is free once all are done), and every step
\* that changes the result list is taken by the worker holding the mutex.
C25_AppendsUnderMutex ==
  /\ [](/\ Cardinality(Holders) <= 1
        /\ mu <=> Holders # {}
        /\ (\A i \in Tasks : tpc[i] \in {"idle", "done"}) => ~mu)
  /\ [][results' # results =>
          /\ mu /\ mu'
          /\ \E i \in Holders :
               /\ Holders = {i}
               /\ tpc[i] = "append"
               /\ results' = Append(results, local[i])]_vars

\* a worker has appended and still holds the mutex while two others wait
\* for it
C25_Witness ==
  /\ mu
  /\ \E i \in Tasks : tpc[i] = "unlock" /\ results # <<>>
  /\ Cardinality({j \in Tasks : tpc[j] = "lock"}) >= 2

\* the workers that have acquired the mutex and appended
Appended == {i \in Tasks : tpc[i] \in {"unlock", "done"}}

\* C26: the result list is in the order in which the workers acquired the
\* mutex: a worker acquires it when the list holds the results of exactly
\* the workers that acquired it before, and its result goes to the end of
\* the list, which is never reordered; once the join is passed the list is
\* a permutation of one result per event. (That the order can differ from
\* the input order is the witness.)
C26_CompletionOrder ==
  /\ [](JoinPassed =>
          /\ Len(results) = Len(earnings)
          /\ \A i \in 1..Len(earnings) :
               Cardinality({j \in 1..Len(results) : results[j] = local[i]})
                 = Cardinality({k \in 1..Len(earnings) : local[k] = local[i]}))
  /\ [][\A i \in Tasks :
          /\ (tpc[i] = "lock" /\ tpc'[i] = "append") =>
               /\ Len(results) = Cardinality(Appended)
               /\ results' = results
          /\ (tpc[i] = "append" /\ tpc'[i] = "unlock") =>
               /\ Len(results') = Cardinality(Appended) + 1
               /\ SubSeq(results', 1, Len(results)) = results
               /\ results'[Len(results')] = local[i]]_vars

\* two events were answered with the result of the second event first
C26_Witness ==
  /\ hpc = "done"
  /\ Len(earnings) = 2
  /\ response.status = 200
  /\ response.results[1].ticker = earnings[2]
  /\ response.results[2].ticker = earnings[1]
  /\ earnings[1] # earnings[2]

\* generateSignals has returned from a call on the result of enhanceData
GeneratedFromEnhanced ==
  scan.stage \in {"generated", "returned"} /\ scan.bars = loop.enhanced

\* the rules that wrote a signal for the bar of time t
RulesAt(t) ==
  {scan.signals[k].rule :
     k \in {j \in 1..Len(scan.signals) : scan.signals[j].time = t}}

\* the number of signals of the bar of time t
SignalsAt(t) ==
  Cardinality({j \in 1..Len(scan.signals) : scan.signals[j].time = t})

BuyRules == {"BULLISH_ENGULFING", "VOLUME_BUY", "FLOW_UP"}
SellRules == {"BEARISH_ENGULFING", "VOLUME_SELL", "FLOW_DOWN"}

\* C27: no bar built by enhanceData yields both a BUY-leaning signal
\* (bullish engulfing, volume-spike buy, directional UP) and a SELL-leaning
\* one (bearish engulfing, volume-spike sell, directional DOWN), so at most
\* one rule of each pair fires and a bar contributes at most 5 signals.
C27_NoBarBuysAndSells ==
  GeneratedFromEnhanced =>
    \A i \in 1..Len(scan.bars) :
      LET rules == RulesAt(scan.bars[i].Timestamp)
      IN  /\ rules \cap BuyRules = {} \/ rules \cap SellRules = {}
          /\ ~({"FLOW_UP", "FLOW_DOWN"} \subseteq rules)
          /\ ~({"VOLUME_SELL", "VOLUME_BUY"} \subseteq rules)
          /\ ~({"BEARISH_ENGULFING", "BULLISH_ENGULFING"} \subseteq rules)
          /\ SignalsAt(scan.bars[i].Timestamp) <= 5

\* a bar gave five signals, the three SELL-leaning ones among them
C27_Witness ==
  /\ GeneratedFromEnhanced
  /\ \E i \in 1..Len(scan.bars) :
       /\ SignalsAt(scan.bars[i].Timestamp) = 5
       /\ SellRules \subseteq RulesAt(scan.bars[i].Timestamp)

\* ------------------------------------------------------------------------
\* Termination of the fan-out (FairSpec)
\* ------------------------------------------------------------------------
\* every worker of the request has acquired a slot, appended its result,
\* released the slot and ended
AllWorkersEnded ==
  /\ \A i \in 1..Len(earnings) :
       /\ tpc[i] = "done"
       /\ \E j \in 1..Len(results) : results[j] = local[i]
  /\ semaphore = 0
  /\ wg = 0

\* C28: the fan-out cannot deadlock: every request is answered, and a
\* request with events is answered with status 200 only after every worker
\* has acquired a slot, appended its result, released the slot and ended;
\* once the join is passed every slot of the semaphore is free.
C28_FanOutTerminates ==
  /\ <>(hpc = "done")
  /\ [](hpc = "done" /\ earnings # <<>> =>
          response.status = 200 /\ AllWorkersEnded)
  /\ [](JoinPassed => semaphore = 0 /\ wg = 0)

\* a request for more events than the semaphore has slots has been answered
\* with every worker ended and every slot free
C28_Witness ==
  /\ hpc = "done"
  /\ response.status = 200
  /\ Len(earnings) > SemCap
  /\ \A i \in 1..Len(earnings) : tpc[i] = "done"
  /\ semaphore = 0
  /\ wg = 0
  /\ ~mu

\* the decision a rule of generateSignals leans to
RuleBucket(rule) ==
  CASE rule \in {"DOJI", "VOLATILITY"} -> "STRADDLE"
    [] rule \in BuyRules -> "BUY"
    [] rule \in SellRules -> "SELL"

\* C29: every record AnalyseMain stores has a final decision of BUY, SELL or
\* STRADDLE, never HOLD: a record is stored only with at least one signal,
\* and every message of generateSignals falls into the bucket of its rule,
\* which is not HOLD.
C29_StoredDecisionNeverHold ==
  /\ \A k \in 1..Len(store) :
       /\ store[k].FinalDecision \in {"BUY", "SELL", "STRADDLE"}
       /\ Len(store[k].Signals) >= 1
  /\ Generated =>
       \A k \in 1..Len(scan.signals) :
         Bucket(MessageText(scan.signals[k]))
           = RuleBucket(scan.signals[k].rule)

\* a record was stored whose signals come from a doji, a bearish engulfing,
\* a volume spike, a volatility expansion and a directional rule
C29_Witness ==
  /\ scan.stage = "returned"
  /\ Len(store) = 1
  /\ store[1].FinalDecision = "SELL"
  /\ {"DOJI", "BEARISH_ENGULFING", "VOLUME_SELL", "VOLATILITY", "FLOW_DOWN"}
       \subseteq {store[1].Signals[k].rule : k \in 1..Len(store[1].Signals)}

\* the input has at least 14 bars, no bar with its high below its low, and
\* a bar with a range among the first 14
RangeInWarmUp ==
  /\ Len(source) >= 14
  /\ \A i \in 1..Len(source) : source[i].high >= source[i].low
  /\ \E i \in 1..14 : source[i].high > source[i].low

\* C30: for every input of at least 14 bars with high >= low on each bar
\* and a positive range among the first 14, generateSignals emits the
\* volatility-expansion signal for the bar at index 13, the ATR of the bar
\* before it being the warm-up value 0; such a run has a non-empty signal
\* list and does not end with the no-signals error.
C30_VolatilityAtFourteenthBar ==
  (GeneratedFromEnhanced /\ RangeInWarmUp) =>
    /\ scan.bars[13].ATR.n = 0
    /\ \E k \in 1..Len(scan.signals) :
         /\ scan.signals[k].rule = "VOLATILITY"
         /\ scan.signals[k].time = scan.bars[14].Timestamp
         /\ Bucket(MessageText(scan.signals[k])) = "STRADDLE"
    /\ scan.signals # <<>>
    /\ scan.err # "no signals or enhanced bars"

\* a run on 16 bars whose only signal is the volatility expansion of the
\* bar at index 13 has stored its record
C30_Witness ==
  /\ scan.stage = "returned"
  /\ scan.bars = loop.enhanced
  /\ RangeInWarmUp
  /\ Len(scan.signals) = 1
  /\ scan.signals[1].rule = "VOLATILITY"
  /\ scan.signals[1].time = scan.bars[14].Timestamp
  /\ scan.err = ""
  /\ Len(store) = 1

====
